---- MODULE Spec2Model ----
(***************************************************************************)
(* The ranked store of the leaderboard backend (package store, type        *)
(* Leaderboard): primary map, ordered view, score-group index, rank cache  *)
(* and prefix index, with the sync.RWMutex protocol of its operations.     *)
(*                                                                         *)
(* A user name is a Go string, modelled as the sequence of its bytes, so   *)
(* that strings.ToLower, the byte-wise string order, prefixes and          *)
(* strings.Contains are computed and not assumed.                          *)
(*                                                                         *)
(* Granularity.  A section of code that runs between mu.Lock() and         *)
(* mu.Unlock() is one step, enabled only when nobody holds the lock: no    *)
(* other goroutine can observe or change the store inside it.  A reader    *)
(* holds the shared lock across steps (it is in the set mu), and the       *)
(* points where a reader holds no lock at all (between RUnlock and Lock,   *)
(* between Unlock and RLock) are states of their own, so that every        *)
(* interleaving the upgrade sequence allows is a behaviour of the model.   *)
(***************************************************************************)
EXTENDS Integers, Sequences, FiniteSets, TLC

VARIABLES
    usersByUsername,   \* map[string]*models.User : name -> [ID, Username, Rating]
    sortedUsers,       \* []*models.User : the pointers, named by their Username
    ratingToUsers,     \* map[int][]string
    rankCache,         \* map[int]int
    rankCacheDirty,    \* bool
    prefixIndex,       \* map[string][]string
    prefixIndexDirty,  \* bool
    mu,                \* sync.RWMutex : the set of goroutines holding the shared lock
    pc,                \* goroutine -> position in the operation it is running
    frame,             \* goroutine -> arguments of the operation it is running
    ret                \* the call that returned last, with its arguments and result,
                       \* until its caller has taken it

store == <<usersByUsername, sortedUsers, ratingToUsers, rankCache,
           rankCacheDirty, prefixIndex, prefixIndexDirty>>
vars == <<usersByUsername, sortedUsers, ratingToUsers, rankCache,
          rankCacheDirty, prefixIndex, prefixIndexDirty, mu, pc, frame, ret>>

----------------------------------------------------------------------------
(* Bounds of the model *)

\* longest batch handed to BulkAddUsers
MaxBatch == 2
\* largest limit handed to GetLeaderboard and SearchUsers
MaxLimit == 3
\* largest offset handed to GetLeaderboard
MaxOffset == 2
\* number of distinct ratings UpdateRating is called with
NumRatings == 2
\* largest index handed to GetRandomUser
MaxIndex == 4
\* number of ticks an update loop or a stream loop is followed for
MaxTicks == 1
\* largest number of entities asked of the generator
MaxCount == 3

\* width of Go's int in bits (64 in the build; the arithmetic of the model is
\* the same two's complement arithmetic at this width)
IntBits == 8

\* "ab", "B", "A" as byte sequences
Names == { <<97, 98>>, <<66>>, <<65>> }
Ratings == { 100 * i : i \in 1..NumRatings }
\* the entities handed to AddUser and BulkAddUsers; two of them share a name
AllUsers ==
    { [ID |-> "user_1", Username |-> <<97, 98>>, Rating |-> 200],
      [ID |-> "user_2", Username |-> <<97, 98>>, Rating |-> 100],
      [ID |-> "user_3", Username |-> <<66>>, Rating |-> 300],
      [ID |-> "user_4", Username |-> <<65>>, Rating |-> 100] }
Batches == UNION { [1..n -> AllUsers] : n \in 0..MaxBatch }
\* "", "a", "A", "b", "ab"
Queries == { <<>>, <<97>>, <<65>>, <<98>>, <<97, 98>> }
Limits == 1..MaxLimit
Offsets == 0..MaxOffset
\* the goroutines calling the store
Procs == {"g1", "g2"}
\* the goroutines Start spawns for the update loop, in the order it spawns them
Loops == <<"loop1", "loop2">>

NoRet == [op |-> "none"]
NoFrame == [op |-> "none"]
\* the nil *models.User
Nil == [ID |-> "nil"]

----------------------------------------------------------------------------
(* Strings *)

\* the bytes of a string as they are, in the place of strings.ToLower
KeepCase(s) == s

ToLowerByte(c) == IF c >= 65 /\ c <= 90 THEN c + 32 ELSE c
ToLower(s) == [i \in 1..Len(s) |-> ToLowerByte(s[i])]

\* Go's < on strings: byte-wise lexicographic
StrLess(a, b) ==
    \/ \E k \in 1..Len(a) :
          /\ k <= Len(b)
          /\ a[k] < b[k]
          /\ \A i \in 1..(k - 1) : a[i] = b[i]
    \/ /\ Len(a) < Len(b)
       /\ \A i \in 1..Len(a) : a[i] = b[i]

\* strings.Contains(s, sub)
Contains(s, sub) ==
    \E i \in 1..(Len(s) - Len(sub) + 1) : SubSeq(s, i, i + Len(sub) - 1) = sub

\* the prefixes s[:i], 1 <= i <= len(s)
Prefixes(s) == { SubSeq(s, 1, i) : i \in 1..Len(s) }

----------------------------------------------------------------------------
(* Go's int and strconv *)

MaxInt == 2 ^ (IntBits - 1) - 1
MinInt == 0 - 2 ^ (IntBits - 1)

\* the int a sum of two non-negative ints comes out as: it wraps around
WrapInt(n) == ((n + 2 ^ (IntBits - 1)) % 2 ^ IntBits) - 2 ^ (IntBits - 1)

\* strconv.Itoa of a non-negative number, as bytes
RECURSIVE Itoa(_)
Itoa(n) == IF n < 10 THEN <<48 + n>> ELSE Append(Itoa(n \div 10), 48 + (n % 10))

\* the number a string of decimal digits stands for
RECURSIVE DigitsValue(_)
DigitsValue(d) ==
    IF d = <<>> THEN 0
    ELSE 10 * DigitsValue(SubSeq(d, 1, Len(d) - 1)) + (d[Len(d)] - 48)

\* strconv.Atoi: an optional sign and at least one decimal digit; err for
\* anything else and for a value that does not fit an int
Atoi(s) ==
    LET signed == Len(s) > 0 /\ s[1] \in {43, 45}
        digits == IF signed THEN Tail(s) ELSE s
        bad == \/ digits = <<>>
               \/ \E i \in 1..Len(digits) : digits[i] < 48 \/ digits[i] > 57
        v == DigitsValue(digits)
        n == IF signed /\ s[1] = 45 THEN 0 - v ELSE v
    IN  IF bad THEN [err |-> TRUE, n |-> 0]
        ELSE IF n > MaxInt THEN [err |-> TRUE, n |-> MaxInt]
        ELSE IF n < MinInt THEN [err |-> TRUE, n |-> MinInt]
        ELSE [err |-> FALSE, n |-> n]

\* the limit parameter taken as parsed, whatever its value
ParseLimitUnchecked(limitStr) ==
    IF limitStr # <<>> /\ ~Atoi(limitStr).err THEN Atoi(limitStr).n ELSE 50

\* Handler.GetLeaderboard, lines 28-35, and Handler.SearchUsers, lines 64-69
ParseLimit(limitStr) ==
    IF /\ limitStr # <<>>
       /\ ~Atoi(limitStr).err
       /\ Atoi(limitStr).n > 0
       /\ Atoi(limitStr).n <= 100
    THEN Atoi(limitStr).n
    ELSE 50

\* Handler.GetLeaderboard, lines 29-41
ParseOffset(offsetStr) ==
    IF offsetStr # <<>> /\ ~Atoi(offsetStr).err /\ Atoi(offsetStr).n >= 0
    THEN Atoi(offsetStr).n
    ELSE 0

----------------------------------------------------------------------------
(* Slices and maps *)

Range(s) == { s[i] : i \in 1..Len(s) }

SlicePerms(s) ==
    { [i \in 1..Len(s) |-> s[f[i]]] :
        f \in { g \in [1..Len(s) -> 1..Len(s)] :
                  \A i, j \in 1..Len(s) : i # j => g[i] # g[j] } }

\* sort.Slice(s, less): "The sort is not guaranteed to be stable": every
\* arrangement of the elements in which no element is less than an earlier one.
\* less[<<a, b>>] is the outcome of the comparison less(a, b).
SortSlice(s, less) ==
    { t \in SlicePerms(s) :
        \A i, j \in 1..Len(t) : i < j => ~less[<<t[j], t[i]>>] }


\* m[k] of a Go map: the zero value when k is no key
RankAt(m, k) == IF k \in DOMAIN m THEN m[k] ELSE 0
ListAt(m, k) == IF k \in DOMAIN m THEN m[k] ELSE <<>>

\* m[k] = append(m[k], x)
MapAppend(m, k, x) ==
    [q \in DOMAIN m \cup {k} |-> IF q = k THEN Append(ListAt(m, k), x) ELSE m[q]]

----------------------------------------------------------------------------
(* The store's code, as functions of the fields it reads *)

\* InsertUser without the check for a stored name: the entity overwrites the
\* stored one and is appended once more
InsertUserOverwrite(core, user) ==
    [u |-> [n \in DOMAIN core.u \cup {user.Username} |->
              IF n = user.Username THEN user ELSE core.u[n]],
     s |-> Append(core.s, user.Username),
     r |-> MapAppend(core.r, user.Rating, user.Username)]

\* InsertUser without the append to the ordered view
InsertUserIntoMapOnly(core, user) ==
    IF user.Username \in DOMAIN core.u
    THEN core
    ELSE [u |-> core.u @@ (user.Username :> user),
          s |-> core.s,
          r |-> MapAppend(core.r, user.Rating, user.Username)]

\* AddUser, lines 55-65, and the loop body of BulkAddUsers, lines 77-83, on
\* core = [u |-> usersByUsername, s |-> sortedUsers, r |-> ratingToUsers]
InsertUser(core, user) ==
    IF user.Username \in DOMAIN core.u
    THEN core
    ELSE [u |-> core.u @@ (user.Username :> user),
          s |-> Append(core.s, user.Username),
          r |-> MapAppend(core.r, user.Rating, user.Username)]

\* the loop of BulkAddUsers over the batch
RECURSIVE InsertAll(_, _)
InsertAll(core, users) ==
    IF users = <<>> THEN core
    ELSE InsertAll(InsertUser(core, Head(users)), Tail(users))

\* the comparison with the lower rating first
LessByRatingAscending(u) ==
    [e \in (DOMAIN u) \X (DOMAIN u) |-> u[e[1]].Rating < u[e[2]].Rating]

\* the comparison BulkAddUsers and SearchUsers sort with: rating only
LessByRating(u) ==
    [e \in (DOMAIN u) \X (DOMAIN u) |-> u[e[1]].Rating > u[e[2]].Rating]

\* the comparison ensureSorted sorts with: rating descending, then name ascending
LessByRatingThenName(u) ==
    [e \in (DOMAIN u) \X (DOMAIN u) |->
        IF u[e[1]].Rating # u[e[2]].Rating
        THEN u[e[1]].Rating > u[e[2]].Rating
        ELSE StrLess(e[1], e[2])]

\* ensureSorted comparing the ratings only
ensureSortedByRating(s, u) == SortSlice(s, LessByRating(u))

\* ensureSorted: the outcomes of the sort (one: the order is total)
ensureSorted(s, u) == SortSlice(s, LessByRatingThenName(u))

\* sort.Sort(sort.Reverse(sort.IntSlice(ratings))) over the keys of a map
SortedDescending(S) ==
    CHOOSE s \in [1..Cardinality(S) -> S] :
        \A i, j \in 1..Cardinality(S) : i < j => s[i] > s[j]

\* rebuildRankCache counting the entities above a score instead of the
\* distinct scores above it
rebuildRankCacheSkipping(rc, r, dirty) ==
    IF ~dirty THEN rc
    ELSE [rating \in DOMAIN r |->
            1 + Cardinality({ e \in UNION { { <<k, i>> : i \in 1..Len(r[k]) } :
                                              k \in DOMAIN r } : e[1] > rating })]

\* rebuildRankCache: the rank cache it leaves, from the cache rc, the
\* score-group index r and the flag rankCacheDirty
rebuildRankCache(rc, r, dirty) ==
    IF ~dirty THEN rc
    ELSE LET ratings == SortedDescending(DOMAIN r)
         IN  [rating \in DOMAIN r |->
                CHOOSE rank \in 1..Len(ratings) : ratings[rank] = rating]

\* rebuildPrefixIndex with the loop "i < len(usernameL)": the whole name is
\* no key
rebuildPrefixIndexShort(pi, order, dirty) ==
    IF ~dirty THEN pi
    ELSE [prefix \in UNION { Prefixes(ToLower(n)) \ {ToLower(n)} : n \in Range(order) } |->
            SelectSeq(order, LAMBDA n : prefix \in Prefixes(ToLower(n)) \ {ToLower(n)})]

\* rebuildPrefixIndex: the prefix index it leaves, from the index pi and the flag
\* prefixIndexDirty, when the range over the map usersByUsername visits the
\* names in the order given
rebuildPrefixIndex(pi, order, dirty) ==
    IF ~dirty THEN pi
    ELSE [prefix \in UNION { Prefixes(ToLower(n)) : n \in Range(order) } |->
            SelectSeq(order, LAMBDA n : prefix \in Prefixes(ToLower(n)))]

\* the orders in which a range over the map usersByUsername can visit its keys
MapOrders(u) ==
    { o \in [1..Cardinality(DOMAIN u) -> DOMAIN u] : Range(o) = DOMAIN u }

\* RemoveFromGroup that leaves the name in its old group
RemoveFromGroupSkipped(r, oldRating, username) == r

\* RemoveFromGroup without the delete of a group that became empty
RemoveFromGroupKeepingEmpty(r, oldRating, username) ==
    [q \in DOMAIN r |->
        IF q = oldRating THEN SelectSeq(r[q], LAMBDA n : n # username) ELSE r[q]]

\* UpdateRating, lines 292-301: the score-group index without username in the
\* group of oldRating
RemoveFromGroup(r, oldRating, username) ==
    LET users == ListAt(r, oldRating)
        hit == { i \in 1..Len(users) : users[i] = username }
        first == CHOOSE i \in hit : \A j \in hit : i <= j
        rest == IF hit = {} THEN users
                ELSE SubSeq(users, 1, first - 1) \o SubSeq(users, first + 1, Len(users))
    IN  IF rest = <<>>
        THEN [q \in DOMAIN r \ {oldRating} |-> r[q]]
        ELSE [q \in DOMAIN r \cup {oldRating} |-> IF q = oldRating THEN rest ELSE r[q]]

\* the page that starts one position late
PageSkippingFirst(s, u, rc, limit, offset) ==
    IF offset + 1 >= Len(s) THEN <<>>
    ELSE LET end == IF offset + 1 + limit > Len(s) THEN Len(s) ELSE offset + 1 + limit
         IN  [k \in 1..(end - offset - 1) |->
                [Rank |-> RankAt(rc, u[s[offset + 1 + k]].Rating),
                 Username |-> u[s[offset + 1 + k]].Username,
                 Rating |-> u[s[offset + 1 + k]].Rating]]

\* GetLeaderboard, lines 163-182: the page
Page(s, u, rc, limit, offset) ==
    IF offset >= Len(s) THEN <<>>
    ELSE LET end == IF offset + limit > Len(s) THEN Len(s) ELSE offset + limit
         IN  [k \in 1..(end - offset) |->
                [Rank |-> RankAt(rc, u[s[offset + k]].Rating),
                 Username |-> u[s[offset + k]].Username,
                 Rating |-> u[s[offset + k]].Rating]]

\* GetUserRank, lines 267-276
UserRank(u, rc, username) ==
    IF username \notin DOMAIN u
    THEN [found |-> FALSE]
    ELSE [found |-> TRUE,
          GlobalRank |-> RankAt(rc, u[username].Rating),
          Username |-> u[username].Username,
          Rating |-> u[username].Rating]

\* SearchUsers, lines 238-249: the results built from the sorted matches
SearchResults(u, rc, matching, limit) ==
    [k \in 1..(IF Len(matching) < limit THEN Len(matching) ELSE limit) |->
        [GlobalRank |-> RankAt(rc, u[matching[k]].Rating),
         Username |-> u[matching[k]].Username,
         Rating |-> u[matching[k]].Rating]]

\* the scan with strings.HasPrefix in the place of strings.Contains
SubstringMatchesByPrefix(pi, query) ==
    UNION { Range(pi[prefix]) :
              prefix \in { k \in DOMAIN pi :
                             Len(query) <= Len(k) /\ SubSeq(k, 1, Len(query)) = query } }

\* SearchUsers, lines 217-227: the names the substring scan collects
SubstringMatches(pi, query) ==
    UNION { Range(pi[prefix]) : prefix \in { k \in DOMAIN pi : Contains(k, query) } }

\* GetStats without the reset of lines 352-355
StatsOfKeepingInitial(s, r) ==
    [TotalUsers |-> Len(s),
     MinRating |-> CHOOSE m \in DOMAIN r \cup {5000} : \A k \in DOMAIN r \cup {5000} : m <= k,
     MaxRating |-> CHOOSE m \in DOMAIN r \cup {100} : \A k \in DOMAIN r \cup {100} : m >= k]

\* GetStats, lines 337-357: MinRating starts at 5000 and MaxRating at 100, the
\* loop over the keys of ratingToUsers lowers and raises them, and both are 0
\* when the ordered view is empty
StatsOf(s, r) ==
    IF Len(s) = 0
    THEN [TotalUsers |-> Len(s), MinRating |-> 0, MaxRating |-> 0]
    ELSE [TotalUsers |-> Len(s),
          MinRating |-> CHOOSE m \in DOMAIN r \cup {5000} :
                           \A k \in DOMAIN r \cup {5000} : m <= k,
          MaxRating |-> CHOOSE m \in DOMAIN r \cup {100} :
                           \A k \in DOMAIN r \cup {100} : m >= k]

\* the slices holding each element of the set S once
Enumerations(S) == { o \in [1..Cardinality(S) -> S] : Range(o) = S }

\* SearchUsers, lines 207-236: the sorted matches of the query q, every outcome
\* of the range over the prefix index and of the sort
SearchMatches(u, pi, q) ==
    LET query == ToLower(q)
        less == LessByRating(u)
    IN  IF Len(query) > 0 /\ query \in DOMAIN pi
        THEN SortSlice(pi[query], less)
        ELSE UNION { SortSlice(scan, less) :
                       scan \in Enumerations(IF Len(query) > 0
                                             THEN SubstringMatches(pi, query)
                                             ELSE {}) }

----------------------------------------------------------------------------
(* Initial state: NewLeaderboard, lines 37-47; no call is running *)

Init ==
    /\ usersByUsername = <<>>
    /\ sortedUsers = <<>>
    /\ ratingToUsers = <<>>
    /\ rankCache = <<>>
    /\ rankCacheDirty = TRUE
    /\ prefixIndex = <<>>
    /\ prefixIndexDirty = TRUE
    /\ mu = {}
    /\ pc = [p \in Procs |-> "idle"]
    /\ frame = [p \in Procs |-> NoFrame]
    /\ ret = NoRet

----------------------------------------------------------------------------
(* Writers: the whole body runs between Lock and the deferred Unlock *)

\* AddUser that rebuilds the rank cache itself, before it returns
AddUserRebuilding(p, user) ==
    /\ pc[p] = "idle"
    /\ mu = {}
    /\ IF user.Username \in DOMAIN usersByUsername
       THEN UNCHANGED store
       ELSE LET core == InsertUser([u |-> usersByUsername, s |-> sortedUsers,
                                    r |-> ratingToUsers], user)
            IN  /\ usersByUsername' = core.u
                /\ sortedUsers' = core.s
                /\ ratingToUsers' = core.r
                /\ rankCache' = rebuildRankCache(rankCache, core.r, TRUE)
                /\ rankCacheDirty' = FALSE
                /\ prefixIndexDirty' = TRUE
                /\ UNCHANGED prefixIndex
    /\ ret' = [op |-> "AddUser", user |-> user]
    /\ pc' = [pc EXCEPT ![p] = "done"]
    /\ UNCHANGED <<mu, frame>>

AddUser(p, user) ==
    /\ pc[p] = "idle"
    /\ mu = {}
    /\ IF user.Username \in DOMAIN usersByUsername
       THEN UNCHANGED store
       ELSE LET core == InsertUser([u |-> usersByUsername, s |-> sortedUsers,
                                    r |-> ratingToUsers], user)
            IN  /\ usersByUsername' = core.u
                /\ sortedUsers' = core.s
                /\ ratingToUsers' = core.r
                /\ rankCacheDirty' = TRUE
                /\ prefixIndexDirty' = TRUE
                /\ UNCHANGED <<rankCache, prefixIndex>>
    /\ ret' = [op |-> "AddUser", user |-> user]
    /\ pc' = [pc EXCEPT ![p] = "done"]
    /\ UNCHANGED <<mu, frame>>

BulkAddUsers(p, users) ==
    /\ pc[p] = "idle"
    /\ mu = {}
    /\ LET core == InsertAll([u |-> usersByUsername, s |-> sortedUsers,
                              r |-> ratingToUsers], users)
       IN  /\ usersByUsername' = core.u
           /\ ratingToUsers' = core.r
           /\ sortedUsers' \in SortSlice(core.s, LessByRating(core.u))
    /\ rankCacheDirty' = TRUE
    /\ prefixIndexDirty' = TRUE
    /\ ret' = [op |-> "BulkAddUsers", users |-> users]
    /\ pc' = [pc EXCEPT ![p] = "done"]
    /\ UNCHANGED <<rankCache, prefixIndex, mu, frame>>

\* UpdateRating that appends the updated entity to the ordered view
UpdateRatingAppending(p, username, newRating) ==
    /\ pc[p] = "idle"
    /\ mu = {}
    /\ IF username \notin DOMAIN usersByUsername
       THEN /\ ret' = [op |-> "UpdateRating", username |-> username,
                       newRating |-> newRating, ok |-> FALSE]
            /\ UNCHANGED store
       ELSE LET oldRating == usersByUsername[username].Rating
            IN  /\ usersByUsername' = [usersByUsername EXCEPT ![username].Rating = newRating]
                /\ ratingToUsers' = MapAppend(RemoveFromGroup(ratingToUsers, oldRating, username),
                                              newRating, username)
                /\ sortedUsers' = Append(sortedUsers, username)
                /\ rankCacheDirty' = TRUE
                /\ ret' = [op |-> "UpdateRating", username |-> username,
                           newRating |-> newRating, ok |-> TRUE]
                /\ UNCHANGED <<rankCache, prefixIndex, prefixIndexDirty>>
    /\ pc' = [pc EXCEPT ![p] = "done"]
    /\ UNCHANGED <<mu, frame>>

\* UpdateRating that marks the rank cache stale before it looks the name up
UpdateRatingMarkingFirst(p, username, newRating) ==
    /\ pc[p] = "idle"
    /\ mu = {}
    /\ rankCacheDirty' = TRUE
    /\ IF username \notin DOMAIN usersByUsername
       THEN /\ ret' = [op |-> "UpdateRating", username |-> username,
                       newRating |-> newRating, ok |-> FALSE]
            /\ UNCHANGED <<usersByUsername, sortedUsers, ratingToUsers, rankCache,
                           prefixIndex, prefixIndexDirty>>
       ELSE LET oldRating == usersByUsername[username].Rating
            IN  /\ usersByUsername' = [usersByUsername EXCEPT ![username].Rating = newRating]
                /\ ratingToUsers' = MapAppend(RemoveFromGroup(ratingToUsers, oldRating, username),
                                              newRating, username)
                /\ ret' = [op |-> "UpdateRating", username |-> username,
                           newRating |-> newRating, ok |-> TRUE]
                /\ UNCHANGED <<sortedUsers, rankCache, prefixIndex, prefixIndexDirty>>
    /\ pc' = [pc EXCEPT ![p] = "done"]
    /\ UNCHANGED <<mu, frame>>

\* UpdateRating that marks the rank cache stale only when the rating changes
UpdateRatingMarkingChange(p, username, newRating) ==
    /\ pc[p] = "idle"
    /\ mu = {}
    /\ IF username \notin DOMAIN usersByUsername
       THEN /\ ret' = [op |-> "UpdateRating", username |-> username,
                       newRating |-> newRating, ok |-> FALSE]
            /\ UNCHANGED store
       ELSE LET oldRating == usersByUsername[username].Rating
            IN  /\ usersByUsername' = [usersByUsername EXCEPT ![username].Rating = newRating]
                /\ ratingToUsers' = MapAppend(RemoveFromGroup(ratingToUsers, oldRating, username),
                                              newRating, username)
                /\ rankCacheDirty' = (rankCacheDirty \/ newRating # oldRating)
                /\ ret' = [op |-> "UpdateRating", username |-> username,
                           newRating |-> newRating, ok |-> TRUE]
                /\ UNCHANGED <<sortedUsers, rankCache, prefixIndex, prefixIndexDirty>>
    /\ pc' = [pc EXCEPT ![p] = "done"]
    /\ UNCHANGED <<mu, frame>>

\* UpdateRating that stores a new entity in the place of the updated one
UpdateRatingReplacing(p, username, newRating) ==
    /\ pc[p] = "idle"
    /\ mu = {}
    /\ IF username \notin DOMAIN usersByUsername
       THEN /\ ret' = [op |-> "UpdateRating", username |-> username,
                       newRating |-> newRating, ok |-> FALSE]
            /\ UNCHANGED store
       ELSE LET oldRating == usersByUsername[username].Rating
            IN  /\ usersByUsername' =
                      [usersByUsername EXCEPT ![username] =
                          [ID |-> "", Username |-> username, Rating |-> newRating]]
                /\ ratingToUsers' = MapAppend(RemoveFromGroup(ratingToUsers, oldRating, username),
                                              newRating, username)
                /\ rankCacheDirty' = TRUE
                /\ ret' = [op |-> "UpdateRating", username |-> username,
                           newRating |-> newRating, ok |-> TRUE]
                /\ UNCHANGED <<sortedUsers, rankCache, prefixIndex, prefixIndexDirty>>
    /\ pc' = [pc EXCEPT ![p] = "done"]
    /\ UNCHANGED <<mu, frame>>

UpdateRating(p, username, newRating) ==
    /\ pc[p] = "idle"
    /\ mu = {}
    /\ IF username \notin DOMAIN usersByUsername
       THEN /\ ret' = [op |-> "UpdateRating", username |-> username,
                       newRating |-> newRating, ok |-> FALSE]
            /\ UNCHANGED store
       ELSE LET oldRating == usersByUsername[username].Rating
            IN  /\ usersByUsername' = [usersByUsername EXCEPT ![username].Rating = newRating]
                /\ ratingToUsers' = MapAppend(RemoveFromGroup(ratingToUsers, oldRating, username),
                                              newRating, username)
                /\ rankCacheDirty' = TRUE
                /\ ret' = [op |-> "UpdateRating", username |-> username,
                           newRating |-> newRating, ok |-> TRUE]
                /\ UNCHANGED <<sortedUsers, rankCache, prefixIndex, prefixIndexDirty>>
    /\ pc' = [pc EXCEPT ![p] = "done"]
    /\ UNCHANGED <<mu, frame>>

----------------------------------------------------------------------------
(* Readers *)

\* mu.RLock() on entry: lines 151, 187, 256
Call(p, f) ==
    /\ pc[p] = "idle"
    /\ mu' = mu \cup {p}
    /\ pc' = [pc EXCEPT ![p] = "check"]
    /\ frame' = [frame EXCEPT ![p] = f]
    /\ UNCHANGED <<store, ret>>

\* the frame of the caller when the call has returned r to it: a caller that
\* keeps what it called for in a local variable result has r in it
HandedBack(caller, r) ==
    IF "result" \in DOMAIN caller THEN [caller EXCEPT !.result = r] ELSE caller

\* the deferred mu.RUnlock() and the return: to the handler that made the
\* call, when one did
Return(p, r) ==
    /\ mu' = mu \ {p}
    /\ pc' = [pc EXCEPT ![p] = IF "caller" \in DOMAIN frame[p] THEN "handler" ELSE "done"]
    /\ frame' = [frame EXCEPT ![p] = IF "caller" \in DOMAIN frame[p]
                                     THEN HandedBack(frame[p].caller, r) ELSE NoFrame]
    /\ ret' = r

\* the upgrade without its mu.RUnlock(): Lock is called with the shared lock held
ReleaseHolding(p, next) ==
    /\ mu' = mu
    /\ pc' = [pc EXCEPT ![p] = next]
    /\ UNCHANGED <<frame, ret>>

\* mu.RUnlock() of the upgrade: lines 155, 191, 200, 260
Release(p, next) ==
    /\ mu' = mu \ {p}
    /\ pc' = [pc EXCEPT ![p] = next]
    /\ UNCHANGED <<frame, ret>>

\* the upgrade without its last mu.RLock()
ReacquireSkipped(p, from, next) ==
    /\ pc[p] = from
    /\ pc' = [pc EXCEPT ![p] = next]
    /\ UNCHANGED <<store, mu, frame, ret>>

\* mu.RLock() of the upgrade: lines 160, 196, 204, 264
Reacquire(p, from, next) ==
    /\ pc[p] = from
    /\ mu' = mu \cup {p}
    /\ pc' = [pc EXCEPT ![p] = next]
    /\ UNCHANGED <<store, frame, ret>>

\* the upgrade without its call of ensureSorted
RebuildWithoutSorting(p, op) ==
    /\ pc[p] = "lock" /\ frame[p].op = op
    /\ mu = {}
    /\ rankCache' = rebuildRankCache(rankCache, ratingToUsers, rankCacheDirty)
    /\ rankCacheDirty' = FALSE
    /\ pc' = [pc EXCEPT ![p] = "rlock"]
    /\ UNCHANGED <<usersByUsername, sortedUsers, ratingToUsers, prefixIndex,
                   prefixIndexDirty, mu, frame, ret>>

\* lines 156-159, 192-195: Lock, rebuildRankCache, ensureSorted, Unlock
RebuildAndSort(p, op) ==
    /\ pc[p] = "lock" /\ frame[p].op = op
    /\ mu = {}
    /\ rankCache' = rebuildRankCache(rankCache, ratingToUsers, rankCacheDirty)
    /\ rankCacheDirty' = FALSE
    /\ sortedUsers' \in ensureSorted(sortedUsers, usersByUsername)
    /\ pc' = [pc EXCEPT ![p] = "rlock"]
    /\ UNCHANGED <<usersByUsername, ratingToUsers, prefixIndex, prefixIndexDirty,
                   mu, frame, ret>>

GetLeaderboardResult(p) ==
    [op |-> "GetLeaderboard", limit |-> frame[p].limit, offset |-> frame[p].offset,
     entries |-> Page(sortedUsers, usersByUsername, rankCache,
                      frame[p].limit, frame[p].offset)]

GetLeaderboard(p, limit, offset) ==
    Call(p, [op |-> "GetLeaderboard", limit |-> limit, offset |-> offset])

\* line 154
GetLeaderboardCheck(p) ==
    /\ pc[p] = "check" /\ frame[p].op = "GetLeaderboard"
    /\ IF rankCacheDirty
       THEN Release(p, "lock")
       ELSE Return(p, GetLeaderboardResult(p))
    /\ UNCHANGED store

\* the upgrade of GetLeaderboard rebuilding the prefix index as well
GetLeaderboardRebuildingPrefix(p) ==
    /\ pc[p] = "lock" /\ frame[p].op = "GetLeaderboard"
    /\ mu = {}
    /\ rankCache' = rebuildRankCache(rankCache, ratingToUsers, rankCacheDirty)
    /\ rankCacheDirty' = FALSE
    /\ sortedUsers' \in ensureSorted(sortedUsers, usersByUsername)
    /\ \E order \in MapOrders(usersByUsername) :
          prefixIndex' = rebuildPrefixIndex(prefixIndex, order, prefixIndexDirty)
    /\ prefixIndexDirty' = FALSE
    /\ pc' = [pc EXCEPT ![p] = "rlock"]
    /\ UNCHANGED <<usersByUsername, ratingToUsers, mu, frame, ret>>

GetLeaderboardRebuild(p) == RebuildAndSort(p, "GetLeaderboard")

GetLeaderboardRLock(p) ==
    /\ frame[p].op = "GetLeaderboard"
    /\ Reacquire(p, "rlock", "read")

\* lines 163-182 after the upgrade
GetLeaderboardRead(p) ==
    /\ pc[p] = "read" /\ frame[p].op = "GetLeaderboard"
    /\ Return(p, GetLeaderboardResult(p))
    /\ UNCHANGED store

GetUserRankResult(p) ==
    [op |-> "GetUserRank", username |-> frame[p].username,
     result |-> UserRank(usersByUsername, rankCache, frame[p].username)]

GetUserRank(p, username) ==
    Call(p, [op |-> "GetUserRank", username |-> username])

\* GetUserRank that rebuilds the rank cache where it stands, the shared lock held
GetUserRankCheckRebuilding(p) ==
    /\ pc[p] = "check" /\ frame[p].op = "GetUserRank"
    /\ IF rankCacheDirty
       THEN /\ rankCache' = rebuildRankCache(rankCache, ratingToUsers, rankCacheDirty)
            /\ rankCacheDirty' = FALSE
            /\ pc' = [pc EXCEPT ![p] = "read"]
            /\ UNCHANGED <<usersByUsername, sortedUsers, ratingToUsers, prefixIndex,
                           prefixIndexDirty, mu, frame, ret>>
       ELSE Return(p, GetUserRankResult(p)) /\ UNCHANGED store

\* line 259
GetUserRankCheck(p) ==
    /\ pc[p] = "check" /\ frame[p].op = "GetUserRank"
    /\ IF rankCacheDirty
       THEN Release(p, "lock")
       ELSE Return(p, GetUserRankResult(p))
    /\ UNCHANGED store

\* lines 261-263: Lock, rebuildRankCache, Unlock
GetUserRankRebuild(p) ==
    /\ pc[p] = "lock" /\ frame[p].op = "GetUserRank"
    /\ mu = {}
    /\ rankCache' = rebuildRankCache(rankCache, ratingToUsers, rankCacheDirty)
    /\ rankCacheDirty' = FALSE
    /\ pc' = [pc EXCEPT ![p] = "rlock"]
    /\ UNCHANGED <<usersByUsername, sortedUsers, ratingToUsers, prefixIndex,
                   prefixIndexDirty, mu, frame, ret>>

GetUserRankRLock(p) ==
    /\ frame[p].op = "GetUserRank"
    /\ Reacquire(p, "rlock", "read")

\* lines 267-276 after the upgrade
GetUserRankRead(p) ==
    /\ pc[p] = "read" /\ frame[p].op = "GetUserRank"
    /\ Return(p, GetUserRankResult(p))
    /\ UNCHANGED store

SearchUsers(p, query, limit) ==
    Call(p, [op |-> "SearchUsers", query |-> query, limit |-> limit])

\* the string a read can see while another goroutine assigns y over x with no
\* lock between them: a string is a pointer and a length, two words, and
\* the read can take the pointer of x with the length of y (the bytes behind
\* the end of x are not known: 0 stands for them)
Torn(x, y) ==
    IF Len(y) <= Len(x)
    THEN SubSeq(x, 1, Len(y))
    ELSE x \o [k \in 1..(Len(y) - Len(x)) |-> 0]

\* lines 232-236 run by two goroutines on one slice at the same time, a data
\* race: the swaps of the two sorts interleave word by word, so every place
\* of the slice can end with any of its names (one twice, another lost) or
\* with a torn one
Corrupt(list) ==
    [1..Len(list) -> Range(list) \cup { Torn(x, y) : x, y \in Range(list) }]

\* the names the query q makes SearchUsers look up
LookedUp(pi, q) ==
    LET query == ToLower(q)
    IN  IF Len(query) > 0 /\ query \in DOMAIN pi
        THEN Range(pi[query])
        ELSE IF Len(query) > 0 THEN SubstringMatches(pi, query) ELSE {}

\* lines 233-234 and 242-244: the map has no entity for the name, user is
\* nil and user.Rating panics; the deferred RUnlock runs
SearchUsersPanic(p) ==
    [op |-> "SearchUsers", query |-> frame[p].query, limit |-> frame[p].limit,
     results |-> <<>>, panic |-> TRUE]

\* what SearchUsers returns with the sorted matches m
SearchUsersResult(p, m) ==
    IF Range(m) \subseteq DOMAIN usersByUsername
    THEN [op |-> "SearchUsers", query |-> frame[p].query,
          limit |-> frame[p].limit,
          results |-> SearchResults(usersByUsername, rankCache, m, frame[p].limit)]
    ELSE SearchUsersPanic(p)

\* another goroutine is inside sort.Slice on the same slice of the prefix index
Racing(p) ==
    \E q \in DOMAIN pc \ {p} :
        /\ pc[q] = "sort"
        /\ ToLower(frame[q].query) = ToLower(frame[p].query)

\* lines 207-251: the matches are the slice stored in the prefix index itself
\* when the query is a key (sort.Slice then sorts that slice in place), and a
\* fresh slice filled by the scan otherwise.  A sort that has to move names
\* of the stored slice takes time: the call is at "sort" while it runs.
SearchUsersFinish(p) ==
    LET query == ToLower(frame[p].query)
        stored == Len(query) > 0 /\ query \in DOMAIN prefixIndex
    IN  IF ~(LookedUp(prefixIndex, frame[p].query) \subseteq DOMAIN usersByUsername)
        THEN /\ Return(p, SearchUsersPanic(p))
             /\ UNCHANGED store
        ELSE IF /\ stored
                /\ pc[p] # "sort"
                /\ SortSlice(prefixIndex[query], LessByRating(usersByUsername))
                      # {prefixIndex[query]}
        THEN /\ pc' = [pc EXCEPT ![p] = "sort"]
             /\ UNCHANGED <<store, mu, frame, ret>>
        ELSE /\ \E m \in SearchMatches(usersByUsername, prefixIndex, frame[p].query) :
                   /\ prefixIndex' = IF stored
                                     THEN [prefixIndex EXCEPT ![query] = m]
                                     ELSE prefixIndex
                   /\ Return(p, SearchUsersResult(p, m))
             /\ UNCHANGED <<usersByUsername, sortedUsers, ratingToUsers, rankCache,
                            rankCacheDirty, prefixIndexDirty>>

\* sort.Slice returns, lines 232-236, and the results are built: alone on the
\* slice it has sorted it; with another goroutine sorting the same slice, the
\* slice and the matches are an outcome of the race
SearchUsersSort(p) ==
    /\ pc[p] = "sort" /\ frame[p].op = "SearchUsers"
    /\ IF Racing(p)
       THEN /\ \E c \in Corrupt(prefixIndex[ToLower(frame[p].query)]) :
                  /\ prefixIndex' = [prefixIndex EXCEPT ![ToLower(frame[p].query)] = c]
                  /\ Return(p, SearchUsersResult(p, c))
            /\ UNCHANGED <<usersByUsername, sortedUsers, ratingToUsers, rankCache,
                           rankCacheDirty, prefixIndexDirty>>
       ELSE SearchUsersFinish(p)

\* lines 190 and 199, reached without an upgrade
SearchUsersCheck(p) ==
    /\ pc[p] = "check" /\ frame[p].op = "SearchUsers"
    /\ IF rankCacheDirty
       THEN Release(p, "lock") /\ UNCHANGED store
       ELSE IF prefixIndexDirty
            THEN Release(p, "lock2") /\ UNCHANGED store
            ELSE SearchUsersFinish(p)

SearchUsersRebuild(p) == RebuildAndSort(p, "SearchUsers")

SearchUsersRLock(p) ==
    /\ frame[p].op = "SearchUsers"
    /\ Reacquire(p, "rlock", "check2")

\* line 199 after the first upgrade
SearchUsersCheck2(p) ==
    /\ pc[p] = "check2" /\ frame[p].op = "SearchUsers"
    /\ IF prefixIndexDirty
       THEN Release(p, "lock2") /\ UNCHANGED store
       ELSE SearchUsersFinish(p)

\* lines 201-203: Lock, rebuildPrefixIndex, Unlock
SearchUsersRebuildPrefix(p) ==
    /\ pc[p] = "lock2" /\ frame[p].op = "SearchUsers"
    /\ mu = {}
    /\ \E order \in MapOrders(usersByUsername) :
          prefixIndex' = rebuildPrefixIndex(prefixIndex, order, prefixIndexDirty)
    /\ prefixIndexDirty' = FALSE
    /\ pc' = [pc EXCEPT ![p] = "rlock2"]
    /\ UNCHANGED <<usersByUsername, sortedUsers, ratingToUsers, rankCache,
                   rankCacheDirty, mu, frame, ret>>

SearchUsersRLock2(p) ==
    /\ frame[p].op = "SearchUsers"
    /\ Reacquire(p, "rlock2", "read")

\* lines 207-251 after the second upgrade
SearchUsersRead(p) ==
    /\ pc[p] = "read" /\ frame[p].op = "SearchUsers"
    /\ SearchUsersFinish(p)

\* GetStats, lines 333-358: RLock, the scan, RUnlock; no writer is inside its
\* section, a section being one step
GetStats(p) ==
    /\ pc[p] = "idle"
    /\ ret' = [op |-> "GetStats", stats |-> StatsOf(sortedUsers, ratingToUsers)]
    /\ pc' = [pc EXCEPT ![p] = "done"]
    /\ UNCHANGED <<store, mu, frame>>

\* GetRandomUser that sorts the ordered view before it picks
GetRandomUserSorting(p, index) ==
    /\ pc[p] = "idle"
    /\ sortedUsers' \in ensureSorted(sortedUsers, usersByUsername)
    /\ ret' = [op |-> "GetRandomUser", index |-> index,
               user |-> IF Len(sortedUsers) = 0 THEN Nil
                        ELSE usersByUsername[sortedUsers'[(index % Len(sortedUsers)) + 1]]]
    /\ pc' = [pc EXCEPT ![p] = "done"]
    /\ UNCHANGED <<usersByUsername, ratingToUsers, rankCache, rankCacheDirty,
                   prefixIndex, prefixIndexDirty, mu, frame>>

\* GetRandomUser, lines 314-323: RLock, the element at index%len, RUnlock
\* (slices count from 0 in the code and from 1 here)
GetRandomUser(p, index) ==
    /\ pc[p] = "idle"
    /\ ret' = [op |-> "GetRandomUser", index |-> index,
               user |-> IF Len(sortedUsers) = 0 THEN Nil
                        ELSE usersByUsername[sortedUsers[(index % Len(sortedUsers)) + 1]]]
    /\ pc' = [pc EXCEPT ![p] = "done"]
    /\ UNCHANGED <<store, mu, frame>>

\* GetTotalUsers, lines 326-330
GetTotalUsers(p) ==
    /\ pc[p] = "idle"
    /\ ret' = [op |-> "GetTotalUsers", total |-> Len(sortedUsers)]
    /\ pc' = [pc EXCEPT ![p] = "done"]
    /\ UNCHANGED <<store, mu, frame>>

----------------------------------------------------------------------------
(* The HTTP handlers: package handlers.  A handler parses its parameters,  *)
(* calls the store (the call is marked with the handler's frame as its      *)
(* caller) and writes its response once the store has returned to it.       *)

\* the response written to the client, and the handler returns
Respond(p, response) ==
    /\ ret' = response
    /\ pc' = [pc EXCEPT ![p] = "done"]
    /\ frame' = [frame EXCEPT ![p] = NoFrame]
    /\ UNCHANGED <<store, mu>>

\* Handler.GetLeaderboard, lines 23-43: the parameters, then the call of the store
HandleGetLeaderboard(p, limitStr, offsetStr) ==
    /\ pc[p] = "idle"
    /\ Call(p, [op |-> "GetLeaderboard",
                limit |-> ParseLimit(limitStr), offset |-> ParseOffset(offsetStr),
                caller |-> [op |-> "Handler.GetLeaderboard",
                            limitStr |-> limitStr, offsetStr |-> offsetStr,
                            limit |-> ParseLimit(limitStr),
                            offset |-> ParseOffset(offsetStr)]])

\* Handler.StreamUpdates, lines 140-141: a tick of the ticker
HandleStreamUpdates(p) ==
    /\ pc[p] = "idle"
    /\ Call(p, [op |-> "GetLeaderboard", limit |-> 50, offset |-> 0,
                caller |-> [op |-> "Handler.StreamUpdates",
                            limit |-> 50, offset |-> 0]])

\* Handler.GetLeaderboard, lines 44-55, and Handler.StreamUpdates, lines
\* 141-151: GetStats and the response; offset+limit is a sum of ints
HandleGetLeaderboardStats(p) ==
    /\ pc[p] = "handler"
    /\ frame[p].op \in {"Handler.GetLeaderboard", "Handler.StreamUpdates"}
    /\ LET stats == StatsOf(sortedUsers, ratingToUsers)
       IN  Respond(p, [op |-> frame[p].op,
                       entries |-> ret.entries,
                       totalUsers |-> stats.TotalUsers,
                       limit |-> frame[p].limit,
                       offset |-> frame[p].offset,
                       hasMore |-> WrapInt(frame[p].offset + frame[p].limit)
                                     < stats.TotalUsers])

\* Handler.SearchUsers that calls the store whatever the query is
HandleSearchUsersAlways(p, query, limitStr) ==
    /\ pc[p] = "idle"
    /\ Call(p, [op |-> "SearchUsers", query |-> query,
                limit |-> ParseLimit(limitStr),
                caller |-> [op |-> "Handler.SearchUsers", query |-> query,
                            limitStr |-> limitStr]])

\* Handler.SearchUsers, lines 59-79: the empty query is answered at once
HandleSearchUsers(p, query, limitStr) ==
    /\ pc[p] = "idle"
    /\ IF query = <<>>
       THEN Respond(p, [op |-> "Handler.SearchUsers", status |-> 200,
                        results |-> <<>>, query |-> query])
       ELSE Call(p, [op |-> "SearchUsers", query |-> query,
                     limit |-> ParseLimit(limitStr),
                     caller |-> [op |-> "Handler.SearchUsers", query |-> query,
                                 limitStr |-> limitStr]])

\* Handler.StreamSearchUpdates, lines 157-162 and 180: no query is an error,
\* and a tick of the ticker otherwise
HandleStreamSearchUpdates(p, query) ==
    /\ pc[p] = "idle"
    /\ IF query = <<>>
       THEN Respond(p, [op |-> "Handler.StreamSearchUpdates", status |-> 400,
                        query |-> query])
       ELSE Call(p, [op |-> "SearchUsers", query |-> query, limit |-> 50,
                     caller |-> [op |-> "Handler.StreamSearchUpdates",
                                 query |-> query]])

\* Handler.SearchUsers, lines 81-87, and Handler.StreamSearchUpdates, lines 181-187
HandleSearchUsersRespond(p) ==
    /\ pc[p] = "handler"
    /\ frame[p].op \in {"Handler.SearchUsers", "Handler.StreamSearchUpdates"}
    /\ Respond(p, [op |-> frame[p].op, status |-> 200, results |-> ret.results,
                   query |-> frame[p].query, count |-> Len(ret.results)])

\* Handler.GetUser, lines 90-97
HandleGetUser(p, username) ==
    /\ pc[p] = "idle"
    /\ IF username = <<>>
       THEN Respond(p, [op |-> "Handler.GetUser", status |-> 400])
       ELSE Call(p, [op |-> "GetUserRank", username |-> username,
                     caller |-> [op |-> "Handler.GetUser"]])

\* Handler.GetUser, lines 98-104
HandleGetUserRespond(p) ==
    /\ pc[p] = "handler"
    /\ frame[p].op = "Handler.GetUser"
    /\ IF ret.result.found
       THEN Respond(p, [op |-> "Handler.GetUser", status |-> 200,
                        result |-> ret.result])
       ELSE Respond(p, [op |-> "Handler.GetUser", status |-> 404])

----------------------------------------------------------------------------
(* A caller of AddUser that reads right after it: when AddUser has returned *)
(* to it, its next call is a read, and it keeps the entity it added in mind *)
(* until the read has returned (the read is marked with the caller's frame). *)

\* mu.RLock() on entry of the read, lines 151 and 187
CallAfterAddUser(p, f) ==
    /\ pc[p] = "done"
    /\ ret.op = "AddUser"
    /\ mu' = mu \cup {p}
    /\ pc' = [pc EXCEPT ![p] = "check"]
    /\ frame' = [frame EXCEPT ![p] =
                    f @@ [caller |-> [op |-> "AfterAddUser", user |-> ret.user]]]
    /\ ret' = NoRet
    /\ UNCHANGED store

GetLeaderboardAfterAddUser(p, limit, offset) ==
    CallAfterAddUser(p, [op |-> "GetLeaderboard", limit |-> limit, offset |-> offset])

SearchUsersAfterAddUser(p, query, limit) ==
    CallAfterAddUser(p, [op |-> "SearchUsers", query |-> query, limit |-> limit])

\* the read has returned to the caller, which takes its result
TakeAfterAddUser(p) ==
    /\ pc[p] = "handler"
    /\ frame[p].op = "AfterAddUser"
    /\ Respond(p, NoRet)

----------------------------------------------------------------------------
(* A caller that loads the ranking page after page (the screen of the       *)
(* frontend, fetchLeaderboard and handleLoadMore): it appends every page to *)
(* the entries it holds and asks for the page after it, until a page comes  *)
(* back empty.                                                              *)

\* the first page
LoadPages(p, limit) ==
    /\ pc[p] = "idle"
    /\ Call(p, [op |-> "GetLeaderboard", limit |-> limit, offset |-> 0,
                caller |-> [op |-> "LoadPages", limit |-> limit, offset |-> 0,
                            entries |-> <<>>]])

\* a page has come back with entries: they are appended, and the next page
\* is asked for
LoadNextPage(p) ==
    /\ pc[p] = "handler"
    /\ frame[p].op = "LoadPages"
    /\ ret.entries # <<>>
    /\ mu' = mu \cup {p}
    /\ pc' = [pc EXCEPT ![p] = "check"]
    /\ frame' = [frame EXCEPT ![p] =
                    [op |-> "GetLeaderboard", limit |-> frame[p].limit,
                     offset |-> frame[p].offset + frame[p].limit,
                     caller |-> [op |-> "LoadPages", limit |-> frame[p].limit,
                                 offset |-> frame[p].offset + frame[p].limit,
                                 entries |-> frame[p].entries \o ret.entries]]]
    /\ ret' = NoRet
    /\ UNCHANGED store

\* a page has come back empty: the caller has all the entries
LoadPagesDone(p) ==
    /\ pc[p] = "handler"
    /\ frame[p].op = "LoadPages"
    /\ ret.entries = <<>>
    /\ Respond(p, [op |-> "LoadPages", limit |-> frame[p].limit,
                   entries |-> frame[p].entries])

----------------------------------------------------------------------------
(* The streams: Handler.StreamUpdates and Handler.StreamSearchUpdates, the  *)
(* whole loop.  The goroutine that serves the subscriber is at "select"     *)
(* between two ticks; its frame holds the query, the state of the request   *)
(* context (ctx), the ticks taken and the snapshots pushed, and the result  *)
(* of its call of the store.                                                *)

StreamOps == {"Handler.StreamUpdates", "Handler.StreamSearchUpdates"}

\* the frame of the stream goroutine p is serving, if any: its own frame, or
\* the caller of the store call it is in
StreamOf(p) ==
    IF "ctx" \in DOMAIN frame[p] THEN frame[p]
    ELSE IF "caller" \in DOMAIN frame[p] /\ "ctx" \in DOMAIN frame[p].caller
    THEN frame[p].caller
    ELSE NoFrame

Streaming(p) == StreamOf(p) # NoFrame

\* Handler.StreamUpdates, lines 122-137: without a flusher the answer is 500;
\* otherwise the ticker is made and the loop entered
StreamUpdates(p, flusher) ==
    /\ pc[p] = "idle"
    /\ IF ~flusher
       THEN Respond(p, [op |-> "Handler.StreamUpdates", status |-> 500])
       ELSE /\ pc' = [pc EXCEPT ![p] = "select"]
            /\ frame' = [frame EXCEPT ![p] =
                            [op |-> "Handler.StreamUpdates", ctx |-> "open",
                             ticks |-> 0, pushed |-> 0, result |-> NoRet]]
            /\ UNCHANGED <<store, mu, ret>>

\* Handler.StreamSearchUpdates, lines 159-180: no query is answered 400, no
\* flusher 500; otherwise the ticker is made and the loop entered
StreamSearchUpdates(p, query, flusher) ==
    /\ pc[p] = "idle"
    /\ IF query = <<>>
       THEN Respond(p, [op |-> "Handler.StreamSearchUpdates", status |-> 400,
                        query |-> query])
       ELSE IF ~flusher
       THEN Respond(p, [op |-> "Handler.StreamSearchUpdates", status |-> 500,
                        query |-> query])
       ELSE /\ pc' = [pc EXCEPT ![p] = "select"]
            /\ frame' = [frame EXCEPT ![p] =
                            [op |-> "Handler.StreamSearchUpdates", query |-> query,
                             ctx |-> "open", ticks |-> 0, pushed |-> 0,
                             result |-> NoRet]]
            /\ UNCHANGED <<store, mu, ret>>

\* the select takes the tick, lines 139-140 and 182-183: the store is called
\* (mu.RLock() on entry) with the stream as the caller
StreamTick(p) ==
    /\ pc[p] = "select"
    /\ frame[p].ticks < MaxTicks
    /\ mu' = mu \cup {p}
    /\ pc' = [pc EXCEPT ![p] = "check"]
    /\ frame' = [frame EXCEPT ![p] =
                    IF frame[p].op = "Handler.StreamUpdates"
                    THEN [op |-> "GetLeaderboard", limit |-> 50, offset |-> 0,
                          caller |-> [frame[p] EXCEPT !.ticks = @ + 1]]
                    ELSE [op |-> "SearchUsers", query |-> frame[p].query, limit |-> 50,
                          caller |-> [frame[p] EXCEPT !.ticks = @ + 1]]]
    /\ UNCHANGED <<store, ret>>

\* lines 141-151 and 184-191: the store has returned; GetStats for the page
\* stream, the response, and the write with its flush, after which the loop
\* is at its select again.  A SearchUsers that has panicked ends the handler:
\* net/http recovers the panic and closes the connection.
StreamPush(p) ==
    /\ pc[p] = "handler"
    /\ frame[p].op \in StreamOps /\ "ctx" \in DOMAIN frame[p]
    /\ IF "panic" \in DOMAIN frame[p].result
       THEN /\ pc' = [pc EXCEPT ![p] = "done"]
            /\ frame' = [frame EXCEPT ![p] = NoFrame]
            /\ ret' = [op |-> frame[p].op, to |-> p, panic |-> TRUE]
       ELSE /\ pc' = [pc EXCEPT ![p] = "select"]
            /\ frame' = [frame EXCEPT ![p].pushed = @ + 1, ![p].result = NoRet]
            /\ ret' = IF frame[p].op = "Handler.StreamUpdates"
                      THEN LET stats == StatsOf(sortedUsers, ratingToUsers)
                           IN  [op |-> frame[p].op, to |-> p,
                                entries |-> frame[p].result.entries,
                                totalUsers |-> stats.TotalUsers,
                                limit |-> 50, offset |-> 0,
                                hasMore |-> 50 < stats.TotalUsers]
                      ELSE [op |-> frame[p].op, to |-> p,
                            results |-> frame[p].result.results,
                            query |-> frame[p].query,
                            count |-> Len(frame[p].result.results)]
    /\ UNCHANGED <<store, mu>>

\* the subscriber goes away, or the server shuts down: the context of the
\* request is done, wherever the handler is
ContextDone(p) ==
    /\ Streaming(p)
    /\ StreamOf(p).ctx = "open"
    /\ frame' = [frame EXCEPT ![p] =
                    IF "ctx" \in DOMAIN frame[p]
                    THEN [frame[p] EXCEPT !.ctx = "done"]
                    ELSE [frame[p] EXCEPT !.caller.ctx = "done"]]
    /\ UNCHANGED <<store, mu, pc, ret>>

\* the select takes r.Context().Done(), lines 152-153 and 192-193: the
\* handler returns
StreamReturn(p) ==
    /\ pc[p] = "select"
    /\ frame[p].ctx = "done"
    /\ pc' = [pc EXCEPT ![p] = "done"]
    /\ frame' = [frame EXCEPT ![p] = NoFrame]
    /\ UNCHANGED <<store, mu, ret>>

----------------------------------------------------------------------------
(* The score updater: package simulator.  The goroutine "main" holds the    *)
(* ScoreUpdater in its local variable updater (frame["main"].updater: the   *)
(* fields running and stopChan) and calls Start and Stop; every effective   *)
(* Start spawns one goroutine that runs the update loop.                    *)

\* NewScoreUpdater, lines 18-25
NewScoreUpdater == [running |-> FALSE, stopChan |-> "open"]

\* the update loops that were spawned and have not returned
Running == { i \in 1..Len(Loops) : pc[Loops[i]] \notin {"unborn", "exited"} }

\* the process has ended in a panic: no goroutine goes on
Panicked == pc["main"] = "panic"

\* Start, lines 28-49: nothing when running is set; otherwise it sets the
\* flag and spawns the loop, whose counter starts at 0
Start(p) ==
    /\ pc[p] = "serve"
    /\ IF frame[p].updater.running
       THEN UNCHANGED <<pc, frame>>
       ELSE \E i \in 1..Len(Loops) :
               /\ pc[Loops[i]] = "unborn"
               /\ \A j \in 1..(i - 1) : pc[Loops[j]] # "unborn"
               /\ pc' = [pc EXCEPT ![Loops[i]] = "select"]
               /\ frame' = [frame EXCEPT ![p].updater.running = TRUE,
                                         ![Loops[i]] = [op |-> "loop", counter |-> 0]]
    /\ UNCHANGED <<store, mu, ret>>

\* Stop, lines 52-58: nothing when running is clear; otherwise it clears the
\* flag and closes stopChan, and close of a closed channel panics
Stop(p) ==
    /\ pc[p] = "serve"
    /\ IF ~frame[p].updater.running
       THEN UNCHANGED <<pc, frame>>
       ELSE IF frame[p].updater.stopChan = "closed"
            THEN /\ pc' = [pc EXCEPT ![p] = "panic"]
                 /\ frame' = [frame EXCEPT ![p].updater.running = FALSE]
            ELSE /\ frame' = [frame EXCEPT ![p].updater.running = FALSE,
                                           ![p].updater.stopChan = "closed"]
                 /\ UNCHANGED pc
    /\ UNCHANGED <<store, mu, ret>>

\* line 41: the select takes the tick of the ticker
LoopTick(l) ==
    /\ pc[l] = "select"
    /\ frame[l].counter < MaxTicks
    /\ pc' = [pc EXCEPT ![l] = "total"]
    /\ UNCHANGED <<store, mu, frame, ret>>

\* the select that does not look at stopChan
LoopStopNever(l) ==
    /\ pc[l] = "select"
    /\ FALSE
    /\ UNCHANGED vars

\* lines 44-45: the select takes the closed stopChan, and the loop returns
LoopStop(l) ==
    /\ pc[l] = "select"
    /\ frame["main"].updater.stopChan = "closed"
    /\ pc' = [pc EXCEPT ![l] = "exited"]
    /\ frame' = [frame EXCEPT ![l] = NoFrame]
    /\ UNCHANGED <<store, mu, ret>>

\* performRandomUpdate has returned: line 43, counter++
NextTick(l) == [op |-> "loop", counter |-> frame[l].counter + 1]

\* performRandomUpdate, lines 62-65: GetTotalUsers, and nothing more on an
\* empty store
PerformTotal(l) ==
    /\ pc[l] = "total"
    /\ IF Len(sortedUsers) = 0
       THEN /\ pc' = [pc EXCEPT ![l] = "select"]
            /\ frame' = [frame EXCEPT ![l] = NextTick(l)]
       ELSE /\ pc' = [pc EXCEPT ![l] = "pick"]
            /\ frame' = [frame EXCEPT ![l] =
                            [op |-> "loop", counter |-> frame[l].counter,
                             totalUsers |-> Len(sortedUsers)]]
    /\ UNCHANGED <<store, mu, ret>>

\* the index drawn from 0..totalUsers
DrawInclusive(totalUsers) == 0..totalUsers

\* line 68: rand.Intn(totalUsers)
Draw(totalUsers) == 0..(totalUsers - 1)

\* lines 68-72: the index is drawn and GetRandomUser is called with it; the
\* user is the pointer it returns, named by its Username
PerformPick(l, userIndex) ==
    /\ pc[l] = "pick"
    /\ userIndex \in Draw(frame[l].totalUsers)
    /\ IF Len(sortedUsers) = 0
       THEN /\ pc' = [pc EXCEPT ![l] = "select"]
            /\ frame' = [frame EXCEPT ![l] = NextTick(l)]
       ELSE /\ pc' = [pc EXCEPT ![l] = "chance"]
            /\ frame' = [frame EXCEPT ![l] =
                            [op |-> "loop", counter |-> frame[l].counter,
                             totalUsers |-> frame[l].totalUsers,
                             userIndex |-> userIndex,
                             user |-> sortedUsers[(userIndex % Len(sortedUsers)) + 1]]]
    /\ UNCHANGED <<store, mu, ret>>

\* lines 77-79: rand.Float64() is in [0, 1), so it can be below
\* Rating/5000.0 when the rating is positive, and at or above it when the
\* rating is below 5000; user.Rating is read with no lock held
PerformChance(l, lose) ==
    /\ pc[l] = "chance"
    /\ LET rating == usersByUsername[frame[l].user].Rating
       IN  IF lose THEN rating > 0 ELSE rating < 5000
    /\ pc' = [pc EXCEPT ![l] = "change"]
    /\ frame' = [frame EXCEPT ![l] = frame[l] @@ [lose |-> lose]]
    /\ UNCHANGED <<store, mu, ret>>

\* the new rating as it is, without the clamp of lines 90-95
Unclamped(newRating) == newRating

\* lines 90-95
Clamp(newRating) ==
    IF newRating < 100 THEN 100
    ELSE IF newRating > 5000 THEN 5000
    ELSE newRating

\* lines 81 and 84: -(rand.Intn(30) + 10) and rand.Intn(25) - 5, at their ends
LoseChanges == {0 - 39, 0 - 10}
GainChanges == {0 - 5, 19}

\* lines 81-95: the change, and the new rating from user.Rating as it is now
PerformChange(l, change) ==
    /\ pc[l] = "change"
    /\ change \in (IF frame[l].lose THEN LoseChanges ELSE GainChanges)
    /\ pc' = [pc EXCEPT ![l] = "update"]
    /\ frame' = [frame EXCEPT ![l] =
                    frame[l] @@
                    [newRating |-> Clamp(usersByUsername[frame[l].user].Rating + change)]]
    /\ UNCHANGED <<store, mu, ret>>

\* line 97: UpdateRating(user.Username, newRating), between Lock and Unlock;
\* then performRandomUpdate returns
PerformUpdate(l) ==
    /\ pc[l] = "update"
    /\ mu = {}
    /\ LET username == frame[l].user
           newRating == frame[l].newRating
       IN  IF username \notin DOMAIN usersByUsername
           THEN /\ ret' = [op |-> "UpdateRating", username |-> username,
                           newRating |-> newRating, ok |-> FALSE, by |-> l]
                /\ UNCHANGED store
           ELSE LET oldRating == usersByUsername[username].Rating
                IN  /\ usersByUsername' =
                          [usersByUsername EXCEPT ![username].Rating = newRating]
                    /\ ratingToUsers' =
                          MapAppend(RemoveFromGroup(ratingToUsers, oldRating, username),
                                    newRating, username)
                    /\ rankCacheDirty' = TRUE
                    /\ ret' = [op |-> "UpdateRating", username |-> username,
                               newRating |-> newRating, ok |-> TRUE, by |-> l]
                    /\ UNCHANGED <<sortedUsers, rankCache, prefixIndex, prefixIndexDirty>>
    /\ pc' = [pc EXCEPT ![l] = "select"]
    /\ frame' = [frame EXCEPT ![l] = NextTick(l)]
    /\ UNCHANGED mu

----------------------------------------------------------------------------
(* The seed generator, package seed, and the start of main.  The goroutine  *)
(* "main" keeps the locals of GenerateUsers (count, i, users,               *)
(* usedUsernames) and then users and the logged total in its frame.         *)

\* lines 9-27, cut to "a", "b" and "", "_0"
firstNames == << <<97>>, <<98>> >>
suffixes == << <<>>, <<95, 48>> >>
\* line 68
commonRatings == <<4600, 3900, 2500, 1500, 1000>>
\* the draws of rand.Intn(10000), line 40, and of rand.Intn(4901), line 50
Numbers == {0}
RatingDraws == {0, 4900}

\* line 36, and line 40 when the name is taken: fmt.Sprintf("%s%s_%d", ...)
UsernameFor(usedUsernames, firstName, suffix, n) ==
    IF (firstName \o suffix) \in usedUsernames
    THEN firstName \o suffix \o <<95>> \o Itoa(n)
    ELSE firstName \o suffix

\* lines 50-56: the entity number i + 1
NewUser(i, username, draw) ==
    [ID |-> <<117, 115, 101, 114, 95>> \o Itoa(i + 1),
     Username |-> username,
     Rating |-> 100 + draw]

\* the loop body that appends the name whether it is taken or not
GenerateStepUnchecked(g, firstName, suffix, n, draw) ==
    LET username == UsernameFor(g.usedUsernames, firstName, suffix, n)
    IN  [g EXCEPT !.usedUsernames = g.usedUsernames \cup {username},
                  !.users = Append(g.users, NewUser(g.i, username, draw)),
                  !.i = g.i + 1]

\* the loop body of GenerateUsers, lines 34-59, on its locals g: continue
\* when the name is still taken
GenerateStep(g, firstName, suffix, n, draw) ==
    LET username == UsernameFor(g.usedUsernames, firstName, suffix, n)
    IN  IF username \in g.usedUsernames
        THEN g
        ELSE [g EXCEPT !.usedUsernames = g.usedUsernames \cup {username},
                       !.users = Append(g.users, NewUser(g.i, username, draw)),
                       !.i = g.i + 1]

\* one iteration of the loop of line 33
GenerateUsersLoop(p, f, s, n, draw) ==
    /\ pc[p] = "generate"
    /\ frame[p].i < frame[p].count
    /\ frame' = [frame EXCEPT ![p] = GenerateStep(frame[p], firstNames[f], suffixes[s], n, draw)]
    /\ UNCHANGED <<store, mu, pc, ret>>

\* lines 33 and 62: the loop ends and GenerateUsers returns users
GenerateUsersReturn(p) ==
    /\ pc[p] = "generate"
    /\ ~(frame[p].i < frame[p].count)
    /\ pc' = [pc EXCEPT ![p] = "ties"]
    /\ frame' = [frame EXCEPT ![p] = [op |-> "main", count |-> frame[p].count,
                                      users |-> frame[p].users]]
    /\ UNCHANGED <<store, mu, ret>>

\* lines 70-74, on users indexed from 1
WithTies(users) ==
    [k \in 1..Len(users) |->
        IF (k - 1) < 50 /\ (k - 1) % 10 < 5
        THEN [users[k] EXCEPT !.Rating = commonRatings[((k - 1) % 5) + 1]]
        ELSE users[k]]

\* GenerateUsersWithTies, lines 65-77, after its call of GenerateUsers
GenerateUsersWithTies(p) ==
    /\ pc[p] = "ties"
    /\ pc' = [pc EXCEPT ![p] = "bulk"]
    /\ frame' = [frame EXCEPT ![p].users = WithTies(frame[p].users)]
    /\ UNCHANGED <<store, mu, ret>>

\* main, line 46: leaderboard.BulkAddUsers(users)
MainBulkAddUsers(p) ==
    /\ pc[p] = "bulk"
    /\ mu = {}
    /\ LET core == InsertAll([u |-> usersByUsername, s |-> sortedUsers,
                              r |-> ratingToUsers], frame[p].users)
       IN  /\ usersByUsername' = core.u
           /\ ratingToUsers' = core.r
           /\ sortedUsers' \in SortSlice(core.s, LessByRating(core.u))
    /\ rankCacheDirty' = TRUE
    /\ prefixIndexDirty' = TRUE
    /\ pc' = [pc EXCEPT ![p] = "total"]
    /\ UNCHANGED <<rankCache, prefixIndex, mu, frame, ret>>

\* main, lines 47-52: the total that is logged, then the handler and the
\* updater are made
MainGetTotalUsers(p) ==
    /\ pc[p] = "total"
    /\ pc' = [pc EXCEPT ![p] = "serve"]
    /\ frame' = [frame EXCEPT ![p] =
                    frame[p] @@ [total |-> Len(sortedUsers), updater |-> NewScoreUpdater]]
    /\ UNCHANGED <<store, mu, ret>>

----------------------------------------------------------------------------
(* The caller has taken the result of its call and may call again *)

Done(p) ==
    /\ pc[p] = "done"
    /\ pc' = [pc EXCEPT ![p] = "idle"]
    /\ ret' = NoRet
    /\ UNCHANGED <<store, mu, frame>>

----------------------------------------------------------------------------
(* Specifications *)

\* a reading call of goroutine p starts: mu.RLock() on entry
ReadCall(p, names, queries, limits, offsets) ==
    \/ \E l \in limits, o \in offsets : GetLeaderboard(p, l, o)
    \/ \E n \in names : GetUserRank(p, n)
    \/ \E q \in queries, l \in limits : SearchUsers(p, q, l)

\* mu.RLock() at the end of an upgrade
ReadRLock(p) ==
    \/ GetLeaderboardRLock(p)
    \/ GetUserRankRLock(p)
    \/ SearchUsersRLock(p)
    \/ SearchUsersRLock2(p)

\* the other steps of a call: the checks, the rebuilds, the reads, and the
\* caller taking the result
ReadRun(p) ==
    \/ GetLeaderboardCheck(p)
    \/ GetLeaderboardRebuild(p)
    \/ GetLeaderboardRead(p)
    \/ GetUserRankCheck(p)
    \/ GetUserRankRebuild(p)
    \/ GetUserRankRead(p)
    \/ SearchUsersCheck(p)
    \/ SearchUsersRebuild(p)
    \/ SearchUsersCheck2(p)
    \/ SearchUsersRebuildPrefix(p)
    \/ SearchUsersRead(p)
    \/ SearchUsersSort(p)
    \/ Done(p)

\* a step of a reading call of goroutine p, its inputs drawn from the given sets
ReadStep(p, names, queries, limits, offsets) ==
    \/ ReadCall(p, names, queries, limits, offsets)
    \/ ReadRLock(p)
    \/ ReadRun(p)

\* a step of goroutine p, its inputs drawn from the given sets
Step(p, users, batches, names, ratings, queries, limits, offsets) ==
    \/ \E user \in users : AddUser(p, user)
    \/ \E batch \in batches : BulkAddUsers(p, batch)
    \/ \E n \in names, r \in ratings : UpdateRating(p, n, r)
    \/ ReadStep(p, names, queries, limits, offsets)

\* one goroutine: the calls run one at a time
Next ==
    Step("g1", AllUsers, Batches, Names, Ratings, Queries,
         Limits, Offsets)

Spec == Init /\ [][Next]_vars

\* the inputs of the concurrent runs
ConcUsers == { u \in AllUsers : u.ID \in {"user_1", "user_4"} }
ConcBatches == { <<u>> : u \in { v \in AllUsers : v.ID = "user_3" } }
ConcNames == { u.Username : u \in ConcUsers }
ConcQueries == { <<97>> }

\* every goroutine: the calls interleave at the lock operations
ConcNext ==
    \E p \in Procs :
        Step(p, ConcUsers, ConcBatches, ConcNames, Ratings, ConcQueries,
             {MaxLimit}, {0})

ConcSpec == Init /\ [][ConcNext]_vars

\* the stores the reading runs start from: the store after AddUser calls of
\* two or three entities of different names, in every order
ReaderBatches ==
    { b \in UNION { [1..n -> AllUsers] : n \in 2..3 } :
        \A i, j \in 1..Len(b) : i # j => b[i].Username # b[j].Username }

ReadersInit ==
    /\ \E b \in ReaderBatches :
          LET core == InsertAll([u |-> <<>>, s |-> <<>>, r |-> <<>>], b)
          IN  /\ usersByUsername = core.u
              /\ sortedUsers = core.s
              /\ ratingToUsers = core.r
    /\ rankCache = <<>>
    /\ rankCacheDirty = TRUE
    /\ prefixIndex = <<>>
    /\ prefixIndexDirty = TRUE
    /\ mu = {}
    /\ pc = [p \in Procs |-> "idle"]
    /\ frame = [p \in Procs |-> NoFrame]
    /\ ret = NoRet

\* every goroutine reads, and nobody writes
ReadersNext ==
    \E p \in Procs : ReadStep(p, ConcNames, ConcQueries, {MaxLimit}, {0})

ReadersSpec == ReadersInit /\ [][ReadersNext]_vars

\* sync.RWMutex: "If any goroutine calls Lock while the lock is already held
\* by one or more readers, concurrent calls to RLock will block until the
\* writer has acquired (and released) the lock."  A goroutine at "lock" or
\* "lock2" has called mu.Lock() and waits for the readers to leave.
LockWaited == \E q \in Procs : pc[q] \in {"lock", "lock2"}

\* the inputs of the runs in which every call has to return
LiveUsers == { u \in AllUsers : u.ID = "user_1" }
LiveBatches == { <<u>> : u \in { v \in AllUsers : v.ID = "user_4" } }
LiveNames == { u.Username : u \in LiveUsers }

\* a writing call of goroutine p
LiveWrite(p) ==
    \/ \E user \in LiveUsers : AddUser(p, user)
    \/ \E batch \in LiveBatches : BulkAddUsers(p, batch)
    \/ \E n \in LiveNames, r \in Ratings : UpdateRating(p, n, r)

\* mu.RLock() at the end of an upgrade, which no waiting mu.Lock() holds back
LiveRLock(p) == ~LockWaited /\ ReadRLock(p)

\* goroutine p goes on with the call it is in
Continue(p) ==
    \/ ReadRun(p)
    \/ LiveRLock(p)

LiveNext ==
    \E p \in Procs :
        \/ LiveWrite(p)
        \/ ~LockWaited /\ ReadCall(p, LiveNames, ConcQueries, {1}, {0})
        \/ Continue(p)

\* The Go scheduler runs every goroutine that can run: a step that stays
\* possible is taken (a mu.Lock() stays possible once the readers have left,
\* no new reader being let in).  A goroutine blocked in mu.RLock() is let in
\* by the mu.Unlock() of the writer it waited for, before the next writer:
\* a mu.RLock() that is possible again and again is taken.
LiveSpec ==
    /\ Init /\ [][LiveNext]_vars
    /\ \A p \in Procs : WF_vars(ReadRun(p)) /\ SF_vars(LiveRLock(p))

\* the parameters of the requests: missing, no number, zero, negative, signed,
\* small, the largest limit, above it, the largest int, and above it
LimitStrings ==
    { <<>>, <<120>>, <<48>>, <<45, 49>>, <<49>>, <<43, 50>>,
      Itoa(100), Itoa(101), Itoa(MaxInt + 1) }
OffsetStrings ==
    { <<>>, <<120>>, <<45, 53>>, <<48>>, <<49>>, <<50>>,
      Itoa(MaxInt), Itoa(MaxInt + 1) }
\* "", "a"
HandlerQueries == { <<>>, <<97>> }
HandlerUsers == { u \in AllUsers : u.ID # "user_2" }
HandlerNames == { <<>>, <<65>>, <<66>> }

\* one goroutine serves the requests one at a time; the store is filled by
\* AddUser and searched directly as well
HandlerNext ==
    \/ \E user \in HandlerUsers : AddUser("g1", user)
    \/ \E l \in LimitStrings, o \in OffsetStrings : HandleGetLeaderboard("g1", l, o)
    \/ HandleStreamUpdates("g1")
    \/ HandleGetLeaderboardStats("g1")
    \/ \E q \in HandlerQueries, l \in LimitStrings : HandleSearchUsers("g1", q, l)
    \/ \E q \in HandlerQueries : HandleStreamSearchUpdates("g1", q)
    \/ HandleSearchUsersRespond("g1")
    \/ \E n \in HandlerNames : HandleGetUser("g1", n)
    \/ HandleGetUserRespond("g1")
    \/ \E q \in HandlerQueries : SearchUsers("g1", q, 1)
    \/ ReadRLock("g1")
    \/ ReadRun("g1")

HandlerSpec == Init /\ [][HandlerNext]_vars

\* the inputs of the runs with GetStats: scores at both ends of [100, 5000]
\* and between them
StatsUsers ==
    { [ID |-> "user_1", Username |-> <<97, 98>>, Rating |-> 5000],
      [ID |-> "user_4", Username |-> <<65>>, Rating |-> 100] }
StatsBatches == { <<a, b>> : a \in StatsUsers, b \in StatsUsers }
StatsNames == { u.Username : u \in StatsUsers } \cup { <<66>> }
StatsRatings == { 100, 2500, 5000 }

\* one goroutine that also asks for the statistics
StatsNext ==
    \/ Step("g1", StatsUsers, StatsBatches, StatsNames, StatsRatings, {<<97>>},
            {1}, {0})
    \/ GetStats("g1")

StatsSpec == Init /\ [][StatsNext]_vars

\* the inputs of the runs with names and queries that differ in letter case
\* only: "ab" and "AB"; "a", "A", "aB", "AB", "b", "B"
CaseUsers ==
    { [ID |-> "user_1", Username |-> <<97, 98>>, Rating |-> 200],
      [ID |-> "user_5", Username |-> <<65, 66>>, Rating |-> 100] }
CaseBatches == { <<a, b>> : a \in CaseUsers, b \in CaseUsers }
CaseNames == { u.Username : u \in CaseUsers }
CaseQueries == { <<97>>, <<65>>, <<97, 66>>, <<65, 66>>, <<98>>, <<66>> }

\* one goroutine, on those inputs
CaseNext ==
    Step("g1", CaseUsers, CaseBatches, CaseNames, Ratings, CaseQueries,
         {1, 2}, {0})

CaseSpec == Init /\ [][CaseNext]_vars

\* the indices GetRandomUser is called with: below, at and above the count
Indices == 0..MaxIndex

\* one goroutine that also picks entities by index and asks for the count
PickNext ==
    \/ Step("g1", HandlerUsers, ConcBatches, ConcNames, Ratings, ConcQueries,
            {MaxLimit}, {0})
    \/ \E i \in Indices : GetRandomUser("g1", i)
    \/ GetTotalUsers("g1")

PickSpec == Init /\ [][PickNext]_vars

\* one goroutine; AddUser is called with new names only, and the call after it
\* may be a read that remembers the entity added
InsertNext ==
    \/ \E user \in AllUsers :
          user.Username \notin DOMAIN usersByUsername /\ AddUser("g1", user)
    \/ \E batch \in ConcBatches : BulkAddUsers("g1", batch)
    \/ \E n \in Names, r \in Ratings : UpdateRating("g1", n, r)
    \/ ReadStep("g1", Names, ConcQueries, {MaxLimit}, {0})
    \/ \E l \in {1, MaxLimit}, o \in Offsets : GetLeaderboardAfterAddUser("g1", l, o)
    \/ \E q \in Queries, l \in {1, MaxLimit} : SearchUsersAfterAddUser("g1", q, l)
    \/ TakeAfterAddUser("g1")

InsertSpec == Init /\ [][InsertNext]_vars

\* one goroutine, which also loads the whole ranking page after page
PagesNext ==
    \/ Step("g1", HandlerUsers, ConcBatches, Names, Ratings, ConcQueries,
            {MaxLimit}, {0})
    \/ \E l \in Limits : LoadPages("g1", l)
    \/ LoadNextPage("g1")
    \/ LoadPagesDone("g1")

PagesSpec == Init /\ [][PagesNext]_vars

\* the entities of the runs with the score updater: ratings at and near the
\* ends of [100, 5000]
UpdaterUsers ==
    { [ID |-> "user_1", Username |-> <<97, 98>>, Rating |-> 4990],
      [ID |-> "user_4", Username |-> <<65>>, Rating |-> 100] }
UpdaterAdded == { [ID |-> "user_3", Username |-> <<66>>, Rating |-> 5000] }
UpdaterBatches ==
    { b \in UNION { [1..n -> UpdaterUsers] : n \in 0..2 } :
        \A i, j \in 1..Len(b) : i # j => b[i].Username # b[j].Username }

\* main, lines 41-53: the store after BulkAddUsers of the seed entities, the
\* updater made and not started; main is where it calls the updater from
UpdaterInit ==
    /\ \E b \in UpdaterBatches :
          LET core == InsertAll([u |-> <<>>, s |-> <<>>, r |-> <<>>], b)
          IN  /\ usersByUsername = core.u
              /\ sortedUsers \in SortSlice(core.s, LessByRating(core.u))
              /\ ratingToUsers = core.r
    /\ rankCache = <<>>
    /\ rankCacheDirty = TRUE
    /\ prefixIndex = <<>>
    /\ prefixIndexDirty = TRUE
    /\ mu = {}
    /\ pc = [p \in Procs \cup {"main"} \cup Range(Loops) |->
                IF p = "main" THEN "serve"
                ELSE IF p \in Procs THEN "idle" ELSE "unborn"]
    /\ frame = [p \in Procs \cup {"main"} \cup Range(Loops) |->
                   IF p = "main" THEN [op |-> "main", updater |-> NewScoreUpdater]
                   ELSE NoFrame]
    /\ ret = NoRet

\* a step of the update loop l
LoopStep(l) ==
    \/ LoopTick(l)
    \/ PerformTotal(l)
    \/ \E i \in 0..2 : PerformPick(l, i)
    \/ \E lose \in BOOLEAN : PerformChance(l, lose)
    \/ \E change \in LoseChanges \cup GainChanges : PerformChange(l, change)
    \/ PerformUpdate(l)

\* Start and Stop in any sequence, the loops, and a goroutine that adds an
\* entity meanwhile; nothing goes on after a panic
UpdaterNext ==
    \/ ~Panicked /\ Start("main")
    \/ ~Panicked /\ Stop("main")
    \/ \E i \in 1..Len(Loops) : ~Panicked /\ LoopStep(Loops[i])
    \/ \E i \in 1..Len(Loops) : ~Panicked /\ LoopStop(Loops[i])
    \/ \E user \in UpdaterAdded : ~Panicked /\ AddUser("g1", user)

UpdaterSpec == UpdaterInit /\ [][UpdaterNext]_vars

\* The Go scheduler runs every goroutine that can run, and a select with
\* several ready cases takes one "via a uniform pseudo-random selection": the
\* case of the closed stopChan, ready at every select from the close on, is
\* taken.
UpdaterLiveSpec ==
    /\ UpdaterSpec
    /\ \A i \in 1..Len(Loops) :
          /\ WF_vars(~Panicked /\ LoopStep(Loops[i]))
          /\ SF_vars(~Panicked /\ LoopStop(Loops[i]))

\* main, lines 41-45: the empty store, and GenerateUsers(count) about to
\* run its loop
SeedInit ==
    /\ usersByUsername = <<>>
    /\ sortedUsers = <<>>
    /\ ratingToUsers = <<>>
    /\ rankCache = <<>>
    /\ rankCacheDirty = TRUE
    /\ prefixIndex = <<>>
    /\ prefixIndexDirty = TRUE
    /\ mu = {}
    /\ pc = [p \in {"main"} |-> "generate"]
    /\ \E count \in 0..MaxCount :
          frame = [p \in {"main"} |->
                     [op |-> "main", count |-> count, i |-> 0, users |-> <<>>,
                      usedUsernames |-> {}]]
    /\ ret = NoRet

SeedNext ==
    \/ \E f \in 1..Len(firstNames), s \in 1..Len(suffixes), n \in Numbers, draw \in RatingDraws :
          GenerateUsersLoop("main", f, s, n, draw)
    \/ GenerateUsersReturn("main")
    \/ GenerateUsersWithTies("main")
    \/ MainBulkAddUsers("main")
    \/ MainGetTotalUsers("main")

SeedSpec == SeedInit /\ [][SeedNext]_vars

\* the runs with the streams: two stored entities whose names start with "a"
\* or "A", two subscribers, and the update loop changing ratings meanwhile
StreamUsers == { u \in AllUsers : u.ID \in {"user_1", "user_4"} }

StreamRatings == {100, 300}

StreamInit ==
    /\ \E b \in { c \in [1..2 -> StreamUsers] : c[1].ID = "user_1" /\ c[2].ID = "user_4" } :
          LET core == InsertAll([u |-> <<>>, s |-> <<>>, r |-> <<>>], b)
          IN  /\ usersByUsername = core.u
              /\ sortedUsers \in SortSlice(core.s, LessByRating(core.u))
              /\ ratingToUsers = core.r
    /\ rankCache = <<>>
    /\ rankCacheDirty = TRUE
    /\ prefixIndex = <<>>
    /\ prefixIndexDirty = TRUE
    /\ mu = {}
    /\ pc = [p \in Procs \cup {"loop1"} |-> "idle"]
    /\ frame = [p \in Procs \cup {"loop1"} |-> NoFrame]
    /\ ret = NoRet

\* the steps of the store call a tick has made, and the handler returned
\* being ready for the next request
StreamRun(p) ==
    \/ GetLeaderboardCheck(p)
    \/ GetLeaderboardRebuild(p)
    \/ GetLeaderboardRead(p)
    \/ SearchUsersCheck(p)
    \/ SearchUsersRebuild(p)
    \/ SearchUsersCheck2(p)
    \/ SearchUsersRebuildPrefix(p)
    \/ SearchUsersRead(p)
    \/ SearchUsersSort(p)
    \/ Done(p)

\* mu.RLock() at the end of an upgrade, which no waiting mu.Lock() holds back
StreamRLock(p) ==
    /\ ~LockWaited
    /\ \/ GetLeaderboardRLock(p)
       \/ SearchUsersRLock(p)
       \/ SearchUsersRLock2(p)

StreamNext ==
    \/ \E flusher \in BOOLEAN : StreamUpdates("g1", flusher)
    \/ \E p \in Procs, q \in HandlerQueries, flusher \in BOOLEAN :
          StreamSearchUpdates(p, q, flusher)
    \/ \E p \in Procs : ~LockWaited /\ StreamTick(p)
    \/ \E p \in Procs : StreamPush(p)
    \/ \E p \in Procs : ContextDone(p)
    \/ \E p \in Procs : StreamReturn(p)
    \/ \E p \in Procs : StreamRun(p)
    \/ \E p \in Procs : StreamRLock(p)
    \/ \E r \in StreamRatings : UpdateRating("loop1", <<65>>, r)
    \/ Done("loop1")

\* The scheduling of LiveSpec, and the select of the stream loop: with several
\* ready cases it takes one "via a uniform pseudo-random selection", so the
\* case of the context, ready at every select once the context is done, is taken.
StreamSpec ==
    /\ StreamInit /\ [][StreamNext]_vars
    /\ \A p \in Procs :
          /\ WF_vars(StreamRun(p)) /\ SF_vars(StreamRLock(p))
          /\ WF_vars(StreamPush(p))
          /\ SF_vars(StreamReturn(p))

----------------------------------------------------------------------------
(* What the claims speak of *)

\* the scores held by at least one entity
PresentScores == { usersByUsername[n].Rating : n \in DOMAIN usersByUsername }

\* the dense rank of a score: 1 plus the number of distinct present scores above it
DenseRank(rating) == 1 + Cardinality({ x \in PresentScores : x > rating })

\* the ranking order of two stored names, by their current scores
RanksBefore(a, b) ==
    \/ usersByUsername[a].Rating > usersByUsername[b].Rating
    \/ /\ usersByUsername[a].Rating = usersByUsername[b].Rating
       /\ StrLess(a, b)

\* the entries a read returned: of a page, of a search, of a rank lookup
Returned ==
    IF ret.op = "GetLeaderboard" THEN Range(ret.entries)
    ELSE IF ret.op = "SearchUsers"
         THEN { [Rank |-> e.GlobalRank, Username |-> e.Username, Rating |-> e.Rating] :
                  e \in Range(ret.results) }
    ELSE IF ret.op = "GetUserRank" /\ ret.result.found
         THEN { [Rank |-> ret.result.GlobalRank, Username |-> ret.result.Username,
                 Rating |-> ret.result.Rating] }
    ELSE {}

----------------------------------------------------------------------------
(* C1: with the calls run one at a time, every page GetLeaderboard returns  *)
(* lists its entries in (score descending, name ascending) order of the     *)
(* entities' current scores.                                                *)
C1_PageInRankingOrder ==
    ret.op = "GetLeaderboard" =>
        \A i, j \in 1..Len(ret.entries) :
            i < j => RanksBefore(ret.entries[i].Username, ret.entries[j].Username)

(* C2: under any interleaving, what a read returns is what it would return  *)
(* on one single state of the store: there is one set of present scores,    *)
(* holding every returned score, in which every returned rank is the dense  *)
(* rank of its entry's score.  (The claim asks for a state the writes went  *)
(* through; this asks for any state at all, so a result that violates it    *)
(* violates the claim.)                                                     *)
C2_ReadIsOneState ==
    \E S \in SUBSET (Ratings \cup { u.Rating : u \in AllUsers }) :
        \A e \in Returned :
            /\ e.Rating \in S
            /\ e.Rank = 1 + Cardinality({ x \in S : x > e.Rating })

(* C3: whenever the rank cache is rebuilt (its flag is clear), its keys are   *)
(* exactly the scores held by at least one entity, the highest score has    *)
(* rank 1 and every other present score has the rank of the next higher     *)
(* present score plus 1.                                                    *)
C3_RankCacheDense ==
    ~rankCacheDirty =>
        /\ DOMAIN rankCache = PresentScores
        /\ \A s \in PresentScores :
              LET above == { x \in PresentScores : x > s }
              IN  IF above = {}
                  THEN rankCache[s] = 1
                  ELSE \E t \in above :
                          /\ \A x \in above : t <= x
                          /\ rankCache[s] = rankCache[t] + 1

\* "A" was moved from 100 to 200, no entity holds 100 any more, and the rebuilt
\* cache ranks the score the entities share
C3_Witness ==
    /\ ~rankCacheDirty
    /\ <<65>> \in DOMAIN usersByUsername
    /\ Cardinality(DOMAIN usersByUsername) >= 2
    /\ PresentScores = {200}
    /\ rankCache = (200 :> 1)

(* C4: with the calls run one at a time, a successful UpdateRating(n, v)    *)
(* leaves n with score v, and GetUserRank of a stored name returns found    *)
(* with the current score of the name and 1 plus the number of distinct     *)
(* present scores above it as rank.                                         *)
C4_RankAfterUpdate ==
    /\ (ret.op = "UpdateRating" /\ ret.ok) =>
          /\ ret.username \in DOMAIN usersByUsername
          /\ usersByUsername[ret.username].Rating = ret.newRating
    /\ (ret.op = "GetUserRank" /\ ret.username \in DOMAIN usersByUsername) =>
          ret.result = [found |-> TRUE,
                        GlobalRank |-> DenseRank(usersByUsername[ret.username].Rating),
                        Username |-> ret.username,
                        Rating |-> usersByUsername[ret.username].Rating]

\* "B", stored with 300, was moved to 100 and is reported with rank 2
C4_Witness ==
    /\ ret.op = "GetUserRank"
    /\ ret.username = <<66>>
    /\ ret.result.found
    /\ ret.result.Rating = 100
    /\ ret.result.GlobalRank = 2

(* C5: with the calls run one at a time, every entry of a page carries the  *)
(* current score of its entity and 1 plus the number of distinct present    *)
(* scores above it as rank, and the ranks of two consecutive entries of a   *)
(* page differ by at most 1.                                                *)
C5_PageRanks ==
    ret.op = "GetLeaderboard" =>
        /\ \A k \in 1..Len(ret.entries) :
              /\ ret.entries[k].Username \in DOMAIN usersByUsername
              /\ ret.entries[k].Rating = usersByUsername[ret.entries[k].Username].Rating
              /\ ret.entries[k].Rank = DenseRank(ret.entries[k].Rating)
        /\ \A k \in 1..(Len(ret.entries) - 1) :
              /\ ret.entries[k + 1].Rank - ret.entries[k].Rank <= 1
              /\ ret.entries[k].Rank - ret.entries[k + 1].Rank <= 1

\* a step in which a call of the operation op returns
Returns(op) == ret' # ret /\ ret'.op = op

\* the number of entries the score-group index r holds for the name n
Occurrences(r, n) ==
    Cardinality({ e \in UNION { { <<k, i>> : i \in 1..Len(r[k]) } : k \in DOMAIN r } :
                    r[e[1]][e[2]] = n })

(* C6: an UpdateRating of a stored name succeeds, leaves the total count    *)
(* and the set of stored names as they were, and the name is still found    *)
(* by the rank lookup.                                                      *)
C6_UpdateKeepsNames ==
    [][ (Returns("UpdateRating") /\ ret'.username \in DOMAIN usersByUsername) =>
            /\ ret'.ok
            /\ Len(sortedUsers') = Len(sortedUsers)
            /\ DOMAIN usersByUsername' = DOMAIN usersByUsername
            /\ Range(sortedUsers') = Range(sortedUsers)
            /\ UserRank(usersByUsername', rankCache', ret'.username).found ]_vars

\* an update of a stored name has returned, all three names being stored
C6_Witness ==
    /\ ret.op = "UpdateRating"
    /\ ret.ok
    /\ Len(sortedUsers) = 3

(* C7: an UpdateRating of a name that is not stored returns false and       *)
(* leaves the primary map, the ordered view, the score-group index, the     *)
(* rank cache, the prefix index and both flags as they were.                *)
C7_AbsentUpdateNoOp ==
    [][ (Returns("UpdateRating") /\ ret'.username \notin DOMAIN usersByUsername) =>
            /\ ~ret'.ok
            /\ UNCHANGED store ]_vars

\* an update of an absent name has returned on a store whose indices are fresh
C7_Witness ==
    /\ ret.op = "UpdateRating"
    /\ ~ret.ok
    /\ usersByUsername # <<>>
    /\ ~rankCacheDirty
    /\ ~prefixIndexDirty

(* C8: AddUser of a stored name changes nothing of the primary map, the     *)
(* ordered view and the score-group index.  BulkAddUsers leaves every       *)
(* stored entity as it was, stores of each new name the first entity of the *)
(* batch bearing it, lengthens the ordered view by the number of new names, *)
(* and the score-group index holds one entry for every name of the batch.   *)
C8_FirstWriterWins ==
    [][ /\ (Returns("AddUser") /\ ret'.user.Username \in DOMAIN usersByUsername) =>
              /\ usersByUsername' = usersByUsername
              /\ sortedUsers' = sortedUsers
              /\ ratingToUsers' = ratingToUsers
        /\ Returns("BulkAddUsers") =>
              LET batch == ret'.users
                  dup == { i \in 1..Len(batch) :
                             \/ batch[i].Username \in DOMAIN usersByUsername
                             \/ \E j \in 1..(i - 1) : batch[j].Username = batch[i].Username }
                  first == (1..Len(batch)) \ dup
              IN  /\ \A n \in DOMAIN usersByUsername :
                        /\ n \in DOMAIN usersByUsername'
                        /\ usersByUsername'[n] = usersByUsername[n]
                  /\ \A i \in first : usersByUsername'[batch[i].Username] = batch[i]
                  /\ Len(sortedUsers') = Len(sortedUsers) + Cardinality(first)
                  /\ \A i \in 1..Len(batch) :
                        Occurrences(ratingToUsers', batch[i].Username) = 1 ]_vars

\* a batch of two entities of one name and different ids and scores has been
\* added, and the first of them is stored
C8_Witness ==
    /\ ret.op = "BulkAddUsers"
    /\ Len(ret.users) = 2
    /\ ret.users[1].Username = ret.users[2].Username
    /\ ret.users[1].ID # ret.users[2].ID
    /\ usersByUsername[ret.users[1].Username] = ret.users[1]

\* s starts with p
HasPrefix(s, p) == Len(p) <= Len(s) /\ SubSeq(s, 1, Len(p)) = p

\* the names a search returned
ResultNames == { e.Username : e \in Range(ret.results) }

(* C9: with the calls run one at a time, a search for a non-empty prefix of *)
(* the lower-cased form of a stored name, with a limit of at least the      *)
(* number of stored names having that prefix, returns that name.            *)
C9_PrefixSearchFinds ==
    ret.op = "SearchUsers" =>
        LET q == ToLower(ret.query)
            matching == { n \in DOMAIN usersByUsername : q \in Prefixes(ToLower(n)) }
        IN  ret.limit >= Cardinality(matching) => matching \subseteq ResultNames

\* a search for "a" has returned "ab" and "A"
C9_Witness ==
    /\ ret.op = "SearchUsers"
    /\ ret.query = <<97>>
    /\ ResultNames = { <<97, 98>>, <<65>> }

\* the candidate set the claim describes for the query q
Candidates(q) ==
    LET starting == { n \in DOMAIN usersByUsername : HasPrefix(ToLower(n), ToLower(q)) }
    IN  IF starting # {} THEN starting
        ELSE { n \in DOMAIN usersByUsername : Contains(ToLower(n), ToLower(q)) }

\* the results of the search that returned are the candidates, each once, cut
\* at the limit
ResultsAreCandidates ==
    /\ ResultNames \subseteq Candidates(ret.query)
    /\ Len(ret.results) = IF Cardinality(Candidates(ret.query)) < ret.limit
                          THEN Cardinality(Candidates(ret.query)) ELSE ret.limit
    /\ \A i, j \in 1..Len(ret.results) :
          i # j => ret.results[i].Username # ret.results[j].Username

(* C10, as claimed: with the calls run one at a time, the candidates of     *)
(* Search(q) are the stored names whose lower-cased form starts with        *)
(* lower(q) when there is one, and otherwise the stored names whose         *)
(* lower-cased form contains lower(q); each is returned at most once.       *)
C10_CandidatesAsClaimed ==
    ret.op = "SearchUsers" => ResultsAreCandidates

(* C10, amended: the same for a non-empty query.                            *)
C10_CandidatesOfNonEmptyQuery ==
    (ret.op = "SearchUsers" /\ ret.query # <<>>) => ResultsAreCandidates

\* a search for "b" has returned "ab", which has it in the middle, no stored
\* name starting with it
C10_Witness ==
    /\ ret.op = "SearchUsers"
    /\ ret.query = <<98>>
    /\ <<66>> \notin DOMAIN usersByUsername
    /\ ResultNames = { <<97, 98>> }

\* the candidates of a search: none for the empty query
SearchCandidates ==
    IF ret.query = <<>> THEN {} ELSE Candidates(ret.query)

(* C11: with the calls run one at a time, a search returns its results in   *)
(* non-increasing order of score and non-decreasing order of reported rank, *)
(* it returns min(limit, number of candidates) results, and no candidate    *)
(* left out has a higher score than a returned one.                         *)
C11_SearchOrderAndCut ==
    ret.op = "SearchUsers" =>
        /\ \A i, j \in 1..Len(ret.results) :
              i < j => /\ ret.results[i].Rating >= ret.results[j].Rating
                       /\ ret.results[i].GlobalRank <= ret.results[j].GlobalRank
        /\ Len(ret.results) = IF Cardinality(SearchCandidates) < ret.limit
                              THEN Cardinality(SearchCandidates) ELSE ret.limit
        /\ \A n \in SearchCandidates \ ResultNames :
              \A e \in Range(ret.results) : usersByUsername[n].Rating <= e.Rating

\* a search for "a" with limit 1 has returned "ab" with 200 and left out "A",
\* stored before "ab" and holding 100
C11_Witness ==
    /\ ret.op = "SearchUsers"
    /\ ret.query = <<97>>
    /\ ret.limit = 1
    /\ Len(ret.results) = 1
    /\ ret.results[1].Username = <<97, 98>>
    /\ ret.results[1].Rating = 200
    /\ <<65>> \in DOMAIN usersByUsername
    /\ usersByUsername[<<65>>].Rating = 100
    /\ sortedUsers[1] = <<65>>

\* the byte c is an ASCII letter
IsLetter(c) == (c >= 65 /\ c <= 90) \/ (c >= 97 /\ c <= 122)

\* the strings a and b differ in the case of their letters at most
SameButCase(a, b) ==
    /\ Len(a) = Len(b)
    /\ \A i \in 1..Len(a) :
          \/ a[i] = b[i]
          \/ /\ IsLetter(a[i]) /\ IsLetter(b[i])
             /\ (a[i] - b[i] = 32 \/ b[i] - a[i] = 32)

\* the sets of names a search for q with the given limit can return on the
\* present state of the store
SearchSets(q, limit) ==
    { { e.Username : e \in Range(SearchResults(usersByUsername, rankCache, m, limit)) } :
        m \in SearchMatches(usersByUsername, prefixIndex, q) }

(* C12: identity is case-sensitive and search is not.  Every stored entity  *)
(* is stored under its very name, once in the ordered view, and an AddUser  *)
(* that returned left its name stored, also when a name differing in letter *)
(* case only was stored before.  On every state of the store, two queries   *)
(* that differ in letter case only are answered with the same sets of       *)
(* names, for every limit.                                                  *)
C12_CaseFolding ==
    /\ \A n \in DOMAIN usersByUsername :
          /\ usersByUsername[n].Username = n
          /\ Cardinality({ i \in 1..Len(sortedUsers) : sortedUsers[i] = n }) = 1
    /\ ret.op = "AddUser" => ret.user.Username \in DOMAIN usersByUsername
    /\ \A q1, q2 \in CaseQueries :
          SameButCase(q1, q2) =>
              \A limit \in {1, 2} : SearchSets(q1, limit) = SearchSets(q2, limit)

\* "ab" and "AB" are stored as two entities with their own scores, and the
\* search for "aB" has returned both
C12_Witness ==
    /\ ret.op = "SearchUsers"
    /\ ret.query = <<97, 66>>
    /\ ResultNames = { <<97, 98>>, <<65, 66>> }
    /\ usersByUsername[<<97, 98>>].ID = "user_1"
    /\ usersByUsername[<<65, 66>>].ID = "user_5"

(* C14: with the calls run one at a time, GetLeaderboard(limit, offset)    *)
(* returns the entities at positions offset .. min(offset+limit, total)-1   *)
(* of the ordered view, in that order: min(limit, total-offset) entries     *)
(* when offset < total, and none when offset >= total.                      *)
C14_PageIsSliceOfView ==
    ret.op = "GetLeaderboard" =>
        LET total == Len(sortedUsers)
            last == IF ret.offset + ret.limit < total
                    THEN ret.offset + ret.limit ELSE total
        IN  /\ ret.offset >= total => ret.entries = <<>>
            /\ ret.offset < total =>
                  /\ Len(ret.entries) = IF ret.limit < total - ret.offset
                                        THEN ret.limit ELSE total - ret.offset
                  /\ Len(ret.entries) = last - ret.offset
                  /\ \A k \in 1..Len(ret.entries) :
                        ret.entries[k].Username = sortedUsers[ret.offset + k]

\* of three stored entities the page of limit 3 at offset 1 holds the last two
C14_Witness ==
    /\ ret.op = "GetLeaderboard"
    /\ ret.limit = 3
    /\ ret.offset = 1
    /\ Len(sortedUsers) = 3
    /\ Len(ret.entries) = 2

(* C15: two GetLeaderboard calls with the same limit and offset that       *)
(* return one after the other, no write and no other call returning         *)
(* between them, return the same entries in the same order.                 *)
C15_ConsecutivePagesEqual ==
    [][ ( /\ ret.op = "GetLeaderboard"
          /\ ret'.op = "GetLeaderboard"
          /\ ret'.limit = ret.limit
          /\ ret'.offset = ret.offset ) => ret'.entries = ret.entries ]_vars

(* C16: with the calls run one at a time, after any AddUser, BulkAddUsers   *)
(* and UpdateRating calls with scores in [100, 5000], GetStats returns the  *)
(* number of stored entities as total and the smallest and the largest      *)
(* score held by a stored entity as min and max; on the empty store it      *)
(* returns 0, 0 and 0.                                                      *)
C16_StatsOfPresentScores ==
    ret.op = "GetStats" =>
        /\ ret.stats.TotalUsers = Cardinality(DOMAIN usersByUsername)
        /\ IF usersByUsername = <<>>
           THEN ret.stats.MinRating = 0 /\ ret.stats.MaxRating = 0
           ELSE /\ ret.stats.MinRating \in PresentScores
                /\ ret.stats.MaxRating \in PresentScores
                /\ \A x \in PresentScores :
                      ret.stats.MinRating <= x /\ x <= ret.stats.MaxRating

\* both entities were moved to 2500: nobody holds 100 or 5000 any more, and
\* the statistics are total 2, min 2500, max 2500
C16_Witness ==
    /\ ret.op = "GetStats"
    /\ ret.stats = [TotalUsers |-> 2, MinRating |-> 2500, MaxRating |-> 2500]
    /\ ~rankCacheDirty
    /\ DOMAIN rankCache = {2500}

\* the slice s is in ranking order
IsRanked(s) == \A i, j \in 1..Len(s) : i < j => RanksBefore(s[i], s[j])

\* the set of names the prefix index pi holds for each of its keys
NameSets(pi) == [k \in DOMAIN pi |-> Range(pi[k])]

\* the names stored, by the prefixes of their lower-cased form
NamesByPrefix ==
    [k \in UNION { Prefixes(ToLower(n)) : n \in DOMAIN usersByUsername } |->
        { n \in DOMAIN usersByUsername : k \in Prefixes(ToLower(n)) }]

(* C17: with readers racing and nobody writing, every run of the rank cache *)
(* rebuild with its sort leaves the dense ranks of the present scores and   *)
(* the ordered view in ranking order, whatever rebuilds ran before it; run  *)
(* when the flag is already clear it leaves the rank cache as it is, and    *)
(* run on a view in ranking order it leaves the view as it is.  Every run   *)
(* of the prefix index rebuild leaves the stored names under each prefix,   *)
(* and, run when the flag is already clear, the same name sets as before.   *)
C17_RebuildIdempotent ==
    [][ \A p \in Procs :
          /\ ( /\ pc[p] = "lock" /\ pc'[p] = "rlock"
               /\ frame[p].op \in {"GetLeaderboard", "SearchUsers"} ) =>
                /\ DOMAIN rankCache' = PresentScores
                /\ \A x \in PresentScores : rankCache'[x] = DenseRank(x)
                /\ Len(sortedUsers') = Len(sortedUsers)
                /\ Range(sortedUsers') = Range(sortedUsers)
                /\ IsRanked(sortedUsers')
                /\ ~rankCacheDirty => rankCache' = rankCache
                /\ IsRanked(sortedUsers) => sortedUsers' = sortedUsers
          /\ (pc[p] = "lock2" /\ pc'[p] = "rlock2") =>
                /\ NameSets(prefixIndex') = NamesByPrefix
                /\ ~prefixIndexDirty => NameSets(prefixIndex') = NameSets(prefixIndex) ]_vars

\* both goroutines have run the rank cache rebuild with its sort, one after
\* the other, on a store of three entities two of which share a score
C17_Witness ==
    /\ pc = [p \in Procs |-> "rlock"]
    /\ \A p \in Procs : frame[p].op \in {"GetLeaderboard", "SearchUsers"}
    /\ Len(sortedUsers) = 3
    /\ Cardinality(PresentScores) = 2

(* C18: with readers that upgrade their lock and writers running together, *)
(* whenever a call is under way some goroutine can go on with its call, and *)
(* every call that has started returns.                                     *)
C18_EveryCallReturns ==
    /\ []( (\E p \in Procs : pc[p] \notin {"idle", "done"}) =>
              \E q \in Procs : ENABLED Continue(q) )
    /\ \A p \in Procs : (pc[p] \notin {"idle", "done"}) ~> (pc[p] = "done")

\* g1 has called mu.Lock() for its upgrade while g2 holds the shared lock,
\* the store holding an entity
C18_Witness ==
    /\ pc["g1"] = "lock"
    /\ "g2" \in mu
    /\ sortedUsers # <<>>

(* C13: SearchUsers with a query that is empty returns no results whatever *)
(* the store holds.  Handler.SearchUsers answers the empty query with an    *)
(* empty result list in one step from rest: no call of the store is made,   *)
(* no lock is taken and no field of the store changes.                      *)
C13_EmptyQuery ==
    /\ []( (ret.op = "SearchUsers" /\ ret.query = <<>>) => ret.results = <<>> )
    /\ []( (ret.op = "Handler.SearchUsers" /\ ret.query = <<>>) =>
              ret.results = <<>> )
    /\ [][ (ret' # ret /\ ret'.op = "Handler.SearchUsers" /\ ret'.query = <<>>) =>
              /\ pc["g1"] = "idle"
              /\ UNCHANGED <<store, mu>> ]_vars

\* the handler has answered the empty query on a store of three entities
\* whose indices are fresh
C13_Witness ==
    /\ ret.op = "Handler.SearchUsers"
    /\ ret.query = <<>>
    /\ Len(sortedUsers) = 3
    /\ ~prefixIndexDirty
    /\ DOMAIN prefixIndex # {}

(* C19: whatever the limit and offset parameters of a request are, every    *)
(* GetLeaderboard call of the store has 1 <= limit <= 100 and offset >= 0,  *)
(* and every SearchUsers call a handler makes has 1 <= limit <= 100.        *)
C19_HandlersClamp ==
    \A p \in Procs :
        /\ frame[p].op = "GetLeaderboard" =>
              /\ 1 <= frame[p].limit /\ frame[p].limit <= 100
              /\ frame[p].offset >= 0
        /\ (frame[p].op = "SearchUsers" /\ "caller" \in DOMAIN frame[p]) =>
              1 <= frame[p].limit /\ frame[p].limit <= 100

\* the request with limit=101 and offset=-5 has called the store with limit
\* 50 and offset 0
C19_Witness ==
    /\ frame["g1"].op = "GetLeaderboard"
    /\ frame["g1"].caller.op = "Handler.GetLeaderboard"
    /\ frame["g1"].caller.limitStr = Itoa(101)
    /\ frame["g1"].caller.offsetStr = <<45, 53>>
    /\ frame["g1"].limit = 50
    /\ frame["g1"].offset = 0

(* C20: the response of Handler.GetLeaderboard has hasMore = false exactly  *)
(* when offset + limit >= totalUsers.                                       *)
C20_HasMore ==
    ret.op \in {"Handler.GetLeaderboard", "Handler.StreamUpdates"} =>
        (ret.hasMore = FALSE <=> ret.offset + ret.limit >= ret.totalUsers)

(* C21: GetRandomUser(index) with index >= 0 returns the entity at position *)
(* index mod count of the ordered view as it stands when the call is made,   *)
(* and nil when the view is empty; the call changes no field of the store:   *)
(* not the ordered view, not an index, not a stale flag.                     *)
C21_PickLeavesStore ==
    [][Returns("GetRandomUser") =>
          /\ UNCHANGED store
          /\ ret'.index >= 0
          /\ IF Len(sortedUsers) = 0
             THEN ret'.user = Nil
             ELSE /\ ret'.user # Nil
                  /\ ret'.user.Username = sortedUsers[(ret'.index % Len(sortedUsers)) + 1]
                  /\ ret'.user = usersByUsername[ret'.user.Username]]_vars

\* an index above the count has picked from an ordered view that is out of
\* ranking order, with both flags set
C21_Witness ==
    /\ ret.op = "GetRandomUser"
    /\ ret.user # Nil
    /\ ret.index >= Len(sortedUsers)
    /\ ret.index % Len(sortedUsers) # 0
    /\ ~IsRanked(sortedUsers)
    /\ rankCacheDirty /\ prefixIndexDirty

\* the number of stored names that rank before the stored name n
PositionOf(n) == Cardinality({ m \in DOMAIN usersByUsername : RanksBefore(m, n) })

\* AddUser of a new name appends it to the ordered view as it is and sets
\* both flags
AddUserDefersSort ==
    (Returns("AddUser") /\ ret'.user.Username \notin DOMAIN usersByUsername) =>
        /\ sortedUsers' = Append(sortedUsers, ret'.user.Username)
        /\ rankCacheDirty' /\ prefixIndexDirty'

\* the page returned right after AddUser shows the added entity at its
\* ranking position, with its dense rank, when that position is on the page
PageShowsAdded ==
    (pc["g1"] = "handler" /\ frame["g1"].op = "AfterAddUser"
        /\ ret.op = "GetLeaderboard") =>
        LET n == frame["g1"].user.Username
            k == PositionOf(n) - ret.offset + 1
        IN  /\ usersByUsername[n] = frame["g1"].user
            /\ IF k >= 1 /\ k <= ret.limit
               THEN /\ k <= Len(ret.entries)
                    /\ ret.entries[k] = [Rank |-> DenseRank(frame["g1"].user.Rating),
                                         Username |-> n,
                                         Rating |-> frame["g1"].user.Rating]
               ELSE \A i \in 1..Len(ret.entries) : ret.entries[i].Username # n

\* the stored names the search that returned right after AddUser matches by
\* prefix, when its query is a non-empty prefix of the added name
MatchingAdded ==
    { m \in DOMAIN usersByUsername : HasPrefix(ToLower(m), ToLower(ret.query)) }

SearchedForAdded ==
    /\ pc["g1"] = "handler" /\ frame["g1"].op = "AfterAddUser"
    /\ ret.op = "SearchUsers"
    /\ ret.query # <<>>
    /\ HasPrefix(frame["g1"].user.Username, ret.query)

C23_EntitiesStay ==
    [][ /\ DOMAIN usersByUsername \subseteq DOMAIN usersByUsername'
        /\ Len(sortedUsers') >= Len(sortedUsers)
        /\ Range(sortedUsers) \subseteq Range(sortedUsers')
        /\ \A n \in DOMAIN usersByUsername :
              /\ usersByUsername'[n].ID = usersByUsername[n].ID
              /\ usersByUsername'[n].Username = usersByUsername[n].Username
              /\ usersByUsername'[n].Rating # usersByUsername[n].Rating =>
                    /\ Returns("UpdateRating")
                    /\ ret'.ok
                    /\ ret'.username = n
                    /\ usersByUsername'[n].Rating = ret'.newRating ]_vars

\* three entities are stored and an UpdateRating has given "B", added with
\* 300, another rating
C23_Witness ==
    /\ ret.op = "UpdateRating"
    /\ ret.ok
    /\ ret.username = <<66>>
    /\ Cardinality(DOMAIN usersByUsername) = 3
    /\ usersByUsername[<<66>>].ID = "user_3"
    /\ usersByUsername[<<66>>].Rating # 300

\* the places <<score, position>> of the score-group index that hold the name n
GroupPlaces(n) ==
    { e \in UNION { { <<k, i>> : i \in 1..Len(ratingToUsers[k]) } :
                      k \in DOMAIN ratingToUsers } :
        ratingToUsers[e[1]][e[2]] = n }

(* C24: in every state between two writes, the score-group index holds      *)
(* every stored name at exactly one place, in the group of the score its    *)
(* entity has now; it holds nothing but stored names, and no group is       *)
(* empty.                                                                   *)
C24_GroupsPartitionNames ==
    /\ \A k \in DOMAIN ratingToUsers :
          /\ ratingToUsers[k] # <<>>
          /\ Range(ratingToUsers[k]) \subseteq DOMAIN usersByUsername
    /\ \A n \in DOMAIN usersByUsername :
          /\ Cardinality(GroupPlaces(n)) = 1
          /\ \A e \in GroupPlaces(n) : e[1] = usersByUsername[n].Rating

\* an UpdateRating has moved "A", added with 100, to the 200 of "ab": the
\* group of 100 is gone and the group of 200 holds both names
C24_Witness ==
    /\ ret.op = "UpdateRating"
    /\ ret.ok
    /\ ret.username = <<65>>
    /\ ret.newRating = 200
    /\ DOMAIN ratingToUsers = {200, 300}
    /\ ratingToUsers[200] = << <<97, 98>>, <<65>> >>

(* C25: in every state between two writes, the ordered view holds the       *)
(* entities of the primary map and no others, each of them once; the count  *)
(* GetTotalUsers reports from the ordered view is the number of keys of the *)
(* primary map.                                                             *)
C25_ViewHoldsMap ==
    /\ Range(sortedUsers) = DOMAIN usersByUsername
    /\ \A i, j \in 1..Len(sortedUsers) : i # j => sortedUsers[i] # sortedUsers[j]
    /\ \A n \in DOMAIN usersByUsername : usersByUsername[n].Username = n
    /\ ret.op = "GetTotalUsers" => ret.total = Cardinality(DOMAIN usersByUsername)

\* GetTotalUsers has reported three entities, after a rebuild that sorted the
\* ordered view
C25_Witness ==
    /\ ret.op = "GetTotalUsers"
    /\ ret.total = 3
    /\ ~rankCacheDirty
    /\ IsRanked(sortedUsers)

(* C26: an UpdateRating of a stored name leaves the rank cache marked       *)
(* stale, whether or not the new rating differs from the old one, and       *)
(* changes neither the prefix index nor its flag.                           *)
C26_UpdateMarksRanksOnly ==
    [][ (Returns("UpdateRating") /\ ret'.username \in DOMAIN usersByUsername) =>
            /\ ret'.ok
            /\ rankCacheDirty'
            /\ prefixIndex' = prefixIndex
            /\ prefixIndexDirty' = prefixIndexDirty ]_vars

\* an UpdateRating has left "A" at 100, the rating it was added with, on a
\* store whose prefix index is built and fresh
C26_Witness ==
    /\ ret.op = "UpdateRating"
    /\ ret.ok
    /\ ret.username = <<65>>
    /\ ret.newRating = 100
    /\ rankCacheDirty
    /\ ~prefixIndexDirty
    /\ <<97>> \in DOMAIN prefixIndex

\* the step is the exclusive section of a read of goroutine p that started at
\* the position from
RebuildStep(p, from) ==
    /\ pc[p] = from
    /\ pc'[p] # from
    /\ frame[p].op \in {"GetLeaderboard", "GetUserRank", "SearchUsers"}

\* the step is a read of goroutine p going on
ReadGoesOn(p) ==
    /\ pc[p] \notin {"idle", "done", "handler"}
    /\ pc'[p] # pc[p]

\* the step is a write that invalidates the rank cache
InvalidatingWrite ==
    \/ Returns("AddUser") /\ ret'.user.Username \notin DOMAIN usersByUsername
    \/ Returns("BulkAddUsers")
    \/ Returns("UpdateRating") /\ ret'.ok

(* C27: both flags are set at construction.  A flag that is clear gets set  *)
(* only in the step of a write: AddUser of a new name, BulkAddUsers, or     *)
(* (the rank cache's flag only) UpdateRating of a stored name.  A flag that *)
(* is set gets cleared only in the exclusive section of a read, the one     *)
(* that rebuilds its index.  The rank cache and the keys of the prefix      *)
(* index change only in those sections.                                     *)
C27_FlagsTwoStates ==
    /\ (rankCacheDirty = TRUE /\ prefixIndexDirty = TRUE)
    /\ [][ /\ (~rankCacheDirty /\ rankCacheDirty') => InvalidatingWrite
           /\ (~prefixIndexDirty /\ prefixIndexDirty') =>
                 (InvalidatingWrite /\ ~Returns("UpdateRating"))
           /\ (rankCacheDirty /\ ~rankCacheDirty') =>
                 \E p \in Procs : RebuildStep(p, "lock")
           /\ (prefixIndexDirty /\ ~prefixIndexDirty') =>
                 \E p \in Procs : RebuildStep(p, "lock2") /\ frame[p].op = "SearchUsers"
           /\ rankCache' # rankCache => \E p \in Procs : RebuildStep(p, "lock")
           /\ DOMAIN prefixIndex' # DOMAIN prefixIndex =>
                 \E p \in Procs : RebuildStep(p, "lock2")
           /\ (\E p \in Procs : ReadGoesOn(p)) =>
                 /\ rankCacheDirty' => rankCacheDirty
                 /\ prefixIndexDirty' => prefixIndexDirty
                 /\ UNCHANGED <<usersByUsername, ratingToUsers>> ]_vars

\* the prefix index was rebuilt and is stale again after a write, and the
\* rank cache has been rebuilt since that write
C27_Witness ==
    /\ ~rankCacheDirty
    /\ prefixIndexDirty
    /\ <<97>> \in DOMAIN prefixIndex
    /\ Cardinality(DOMAIN usersByUsername) = 3
    /\ DOMAIN rankCache = PresentScores

(* C28: under any interleaving, in the step in which a read computes its    *)
(* result and returns (it holds the shared lock), the flag of the rank      *)
(* cache is clear, for GetLeaderboard, GetUserRank and SearchUsers, and the *)
(* flag of the prefix index is clear, for SearchUsers.                      *)
C28_FreshWhenAnswering ==
    [][ /\ (Returns("GetLeaderboard") \/ Returns("GetUserRank") \/ Returns("SearchUsers")) =>
              ~rankCacheDirty
        /\ Returns("SearchUsers") => ~prefixIndexDirty ]_vars

\* goroutine p moves from the position a to the position b in this step
Moves(p, a, b) == pc[p] = a /\ pc'[p] = b

(* C29: a reader that finds a flag set gives up the shared lock, runs the   *)
(* rebuild in a step of its own in which nobody holds the shared lock       *)
(* before or after (the section between Lock and Unlock), and takes the     *)
(* shared lock again; and no step in which somebody holds the shared lock   *)
(* changes the rank cache, the ordered view, a flag, or the keys of the     *)
(* prefix index.                                                            *)
C29_RebuildUnderExclusiveLock ==
    [][ /\ \A p \in Procs :
              /\ (pc[p] = "check" /\ frame[p].op # "SearchUsers" /\ rankCacheDirty) =>
                    (pc'[p] # pc[p] => Moves(p, "check", "lock"))
              /\ (pc[p] \in {"check", "check2"} /\ frame[p].op = "SearchUsers"
                    /\ pc'[p] # pc[p]) =>
                    IF pc[p] = "check" /\ rankCacheDirty THEN pc'[p] = "lock"
                    ELSE IF prefixIndexDirty THEN pc'[p] = "lock2"
                    ELSE pc'[p] \in {"done", "handler", "sort"}
              /\ (pc[p] \in {"check", "check2"} /\ pc'[p] \in {"lock", "lock2"}) =>
                    (p \in mu /\ p \notin mu')
              /\ (pc[p] \in {"lock", "lock2"} /\ pc'[p] # pc[p]) =>
                    /\ mu = {} /\ mu' = {}
                    /\ pc'[p] = (IF pc[p] = "lock" THEN "rlock" ELSE "rlock2")
              /\ (pc[p] \in {"rlock", "rlock2"} /\ pc'[p] # pc[p]) =>
                    /\ p \notin mu /\ p \in mu'
                    /\ UNCHANGED store
        /\ (\/ rankCache' # rankCache
            \/ sortedUsers' # sortedUsers
            \/ rankCacheDirty' # rankCacheDirty
            \/ prefixIndexDirty' # prefixIndexDirty
            \/ DOMAIN prefixIndex' # DOMAIN prefixIndex) =>
              (mu = {} /\ mu' = {}) ]_vars

\* one reader has rebuilt the prefix index and has not taken the shared lock
\* again, while the other has given its shared lock up to rebuild the rank cache
C29_Witness ==
    /\ pc["g1"] = "rlock2"
    /\ pc["g2"] = "lock"
    /\ mu = {}
    /\ ~prefixIndexDirty
    /\ rankCacheDirty
    /\ <<97>> \in DOMAIN prefixIndex

(* C30: no step taken while a goroutine holds the shared lock changes a     *)
(* field of the store; in particular a SearchUsers that returns leaves the  *)
(* prefix index as it was, the order of the names of every list included.   *)
C30_ReadsLeaveStore ==
    [][ /\ mu # {} => UNCHANGED store
        /\ Returns("SearchUsers") => prefixIndex' = prefixIndex ]_vars

(* C31: no step of a GetLeaderboard or a GetUserRank changes the prefix     *)
(* index or its flag.  The keys of the prefix index change, and its flag    *)
(* is cleared, only in the exclusive section of a SearchUsers at "lock2",   *)
(* and only when the flag is set: with the flag clear that section leaves   *)
(* the index as it is.  A SearchUsers that finds both flags clear at its    *)
(* first check goes on to its sort and its return, taking no exclusive lock.*)
C31_PrefixIndexOnlyBySearch ==
    [][ /\ \A p \in Procs :
              /\ (frame[p].op \in {"GetLeaderboard", "GetUserRank"} /\ pc'[p] # pc[p]) =>
                    /\ prefixIndex' = prefixIndex
                    /\ prefixIndexDirty' = prefixIndexDirty
              /\ (Moves(p, "lock2", "rlock2") /\ ~prefixIndexDirty) =>
                    prefixIndex' = prefixIndex
              /\ (pc[p] = "check" /\ frame[p].op = "SearchUsers" /\ pc'[p] # pc[p]
                    /\ ~rankCacheDirty /\ ~prefixIndexDirty) =>
                    pc'[p] \in {"done", "handler", "sort"}
        /\ (DOMAIN prefixIndex' # DOMAIN prefixIndex
              \/ (prefixIndexDirty /\ ~prefixIndexDirty')) =>
              /\ prefixIndexDirty
              /\ \E p \in Procs : Moves(p, "lock2", "rlock2") /\ frame[p].op = "SearchUsers" ]_vars

\* a GetLeaderboard has returned a page of three entities and has left the
\* prefix index stale: it is built, its flag is set, and a stored name is
\* missing from it
C31_Witness ==
    /\ ret.op = "GetLeaderboard"
    /\ Len(ret.entries) = 3
    /\ ~rankCacheDirty
    /\ prefixIndexDirty
    /\ <<97>> \in DOMAIN prefixIndex
    /\ \E n \in DOMAIN usersByUsername : ToLower(n) \notin DOMAIN prefixIndex

\* the positions at which a call holds the shared lock
HoldingPositions == {"check", "check2", "read", "sort"}

(* C32: a goroutine holds the shared lock exactly when its call stands at   *)
(* a check or in its final section, so a call that has returned holds no    *)
(* lock; every step out of these positions (the mu.RUnlock() of an upgrade, *)
(* or the deferred one at the return, also of a call that panics) gives up  *)
(* a shared lock that the call holds, and nothing else takes a goroutine    *)
(* out of the holders.                                                      *)
C32_ReturnsHoldingNoLock ==
    /\ [](\A p \in Procs : (p \in mu) = (pc[p] \in HoldingPositions))
    /\ [][ \A p \in Procs :
              /\ (pc[p] \in HoldingPositions /\ pc'[p] \notin HoldingPositions) =>
                    (p \in mu /\ p \notin mu')
              /\ (p \in mu /\ p \notin mu') =>
                    (pc[p] \in HoldingPositions /\ pc'[p] \notin HoldingPositions)
              /\ pc'[p] \in {"idle", "done", "handler"} => p \notin mu' ]_vars

\* both goroutines hold the shared lock in their final sections, one of them
\* in a SearchUsers that went through both upgrades
C32_Witness ==
    /\ mu = Procs
    /\ pc["g1"] = "read" /\ frame["g1"].op = "SearchUsers"
    /\ pc["g2"] = "read" /\ frame["g2"].op = "GetUserRank"

(* C33: in every state, under any interleaving of writes and reads, every   *)
(* name listed in the prefix index is a key of the primary map, so that     *)
(* SearchUsers never looks up a name that has no entity.                    *)
C33_IndexedNamesStored ==
    \A k \in DOMAIN prefixIndex : Range(prefixIndex[k]) \subseteq DOMAIN usersByUsername

\* the names of the entries the caller has loaded, in their order
LoadedNames == [i \in 1..Len(ret.entries) |-> ret.entries[i].Username]

(* C34: with no write between them, the pages GetLeaderboard(L, 0),         *)
(* GetLeaderboard(L, L), GetLeaderboard(L, 2L), ... up to the first empty   *)
(* page hold, one after the other, every stored entity exactly once, in the *)
(* (score descending, name ascending) order of the full ranking.            *)
C34_PagesCoverRanking ==
    ret.op = "LoadPages" =>
        /\ Len(ret.entries) = Cardinality(DOMAIN usersByUsername)
        /\ Range(LoadedNames) = DOMAIN usersByUsername
        /\ \A i \in 1..Len(ret.entries) :
              ret.entries[i].Rating = usersByUsername[ret.entries[i].Username].Rating
        /\ IsRanked(LoadedNames)

\* the step is the UpdateRating call of the update loop l
DriverUpdates(l) == pc[l] = "update" /\ pc'[l] = "select"

\* the last call that returned is an UpdateRating call of an update loop
DriverUpdated ==
    /\ ret.op = "UpdateRating"
    /\ "by" \in DOMAIN ret

(* C35: every new rating performRandomUpdate passes to UpdateRating lies in *)
(* [100, 5000]; with a seed population rated in [100, 5000], every stored   *)
(* rating lies in [100, 5000] in every reachable state.                     *)
C35_RatingsInRange ==
    /\ \A i \in 1..Len(Loops) :
          pc[Loops[i]] = "update" => frame[Loops[i]].newRating \in 100..5000
    /\ DriverUpdated => ret.newRating \in 100..5000
    /\ \A n \in DOMAIN usersByUsername : usersByUsername[n].Rating \in 100..5000

\* a loop has raised the entity rated 4990 and the clamp has cut the new
\* rating to 5000, which is stored
C35_Witness ==
    /\ DriverUpdated
    /\ ret.ok
    /\ ret.username = <<97, 98>>
    /\ ret.newRating = 5000
    /\ usersByUsername[<<97, 98>>].Rating = 5000

(* C36: on a non-empty store the pick of performRandomUpdate never fails:   *)
(* the index drawn from the count GetTotalUsers returned is a position of   *)
(* the ordered view when GetRandomUser runs, GetRandomUser returns a user,  *)
(* the name passed to UpdateRating is stored, and UpdateRating returns      *)
(* true, whatever is added between the three lock acquisitions.             *)
C36_PickNeverFails ==
    /\ [][\A i \in 1..Len(Loops) :
            LET l == Loops[i]
            IN  /\ (pc[l] = "pick" /\ pc'[l] # "pick") =>
                      /\ frame[l].totalUsers >= 1
                      /\ frame[l].totalUsers <= Len(sortedUsers)
                      /\ pc'[l] = "chance"
                      /\ frame'[l].userIndex < Len(sortedUsers)
                      /\ frame'[l].user = sortedUsers[frame'[l].userIndex + 1]
                /\ DriverUpdates(l) =>
                      /\ frame[l].user \in DOMAIN usersByUsername
                      /\ ret'.ok = TRUE]_vars
    /\ [](\A i \in 1..Len(Loops) :
            pc[Loops[i]] \in {"chance", "change", "update"} =>
                frame[Loops[i]].user \in DOMAIN usersByUsername)

\* an entity was added after the loop had read a total count of 2, and the
\* loop has picked its user and is about to call UpdateRating
C36_Witness ==
    /\ pc["loop1"] = "update"
    /\ frame["loop1"].totalUsers = 2
    /\ Len(sortedUsers) = 3
    /\ frame["loop1"].user \in DOMAIN usersByUsername

(* C39: in every sequence of Start and Stop calls on one ScoreUpdater,      *)
(* close(stopChan) is never run on the closed channel (which panics), and   *)
(* at most one update loop is running at any time.                          *)
C39_OneLoopOneClose ==
    /\ ~Panicked
    /\ Cardinality(Running) <= 1

(* C40: after Stop on a running updater, every update loop that is running  *)
(* returns (or the process has ended); a loop that has returned stays so    *)
(* and calls UpdateRating no more: UpdateRating is called by running loops  *)
(* only.                                                                    *)
C40_StoppedLoopExits ==
    /\ \A i \in 1..Len(Loops) :
          (frame["main"].updater.stopChan = "closed" /\ i \in Running)
              ~> (pc[Loops[i]] = "exited" \/ Panicked)
    /\ [][\A i \in 1..Len(Loops) :
            pc[Loops[i]] = "exited" =>
                /\ pc'[Loops[i]] = "exited"
                /\ ~(DriverUpdated' /\ ret' # ret /\ ret'.by = Loops[i])]_vars

\* Stop has closed the channel, and the loop, which had updated a rating
\* before, has returned
C40_Witness ==
    /\ frame["main"].updater.stopChan = "closed"
    /\ frame["main"].updater.running = FALSE
    /\ pc["loop1"] = "exited"
    /\ DriverUpdated
    /\ ret.by = "loop1"


\* the names of the generated entities, in their order
GeneratedNames == [k \in 1..Len(frame["main"].users) |-> frame["main"].users[k].Username]

(* C37: GenerateUsersWithTies(count) returns exactly count entities with    *)
(* pairwise distinct names and ratings in [100, 5000] (before and after the *)
(* tie ratings are set); the BulkAddUsers of main then skips none of them,  *)
(* and the total count logged after loading is count.                       *)
C37_SeedLoadsAll ==
    LET m == frame["main"]
    IN  /\ pc["main"] \in {"ties", "bulk", "total", "serve"} =>
              /\ Len(m.users) = m.count
              /\ \A j, k \in 1..Len(m.users) :
                    j # k => m.users[j].Username # m.users[k].Username
              /\ \A k \in 1..Len(m.users) : m.users[k].Rating \in 100..5000
        /\ pc["main"] \in {"total", "serve"} =>
              /\ DOMAIN usersByUsername = Range(GeneratedNames)
              /\ Cardinality(DOMAIN usersByUsername) = m.count
              /\ Len(sortedUsers) = m.count
              /\ \A k \in 1..Len(m.users) : usersByUsername[m.users[k].Username] = m.users[k]
        /\ pc["main"] = "serve" => m.total = m.count

\* three entities were asked for; the name "a_0" was taken when it was drawn
\* again, "a_0_0" was made of it, and the three entities are loaded
C37_Witness ==
    /\ pc["main"] = "serve"
    /\ frame["main"].count = 3
    /\ frame["main"].total = 3
    /\ <<97, 95, 48, 95, 48>> \in DOMAIN usersByUsername


\* the last thing written is a snapshot pushed to a subscriber (or the end of
\* its stream by a panic)
Pushed == "to" \in DOMAIN ret

\* the names of a pushed snapshot, in their order
SnapshotNames ==
    IF ret.op = "Handler.StreamUpdates"
    THEN [k \in 1..Len(ret.entries) |-> ret.entries[k].Username]
    ELSE [k \in 1..Len(ret.results) |-> ret.results[k].Username]

\* the stored names a full snapshot holds: all of them for the page stream
\* (at most 50 are stored), those starting with the query for the search stream
SnapshotOf ==
    IF ret.op = "Handler.StreamUpdates"
    THEN DOMAIN usersByUsername
    ELSE { n \in DOMAIN usersByUsername :
             /\ Len(ret.query) <= Len(n)
             /\ SubSeq(ToLower(n), 1, Len(ret.query)) = ToLower(ret.query) }

\* every tick taken has pushed its snapshot when the loop is at its select again
OnePushPerTick ==
    \A p \in Procs :
        /\ (pc[p] = "select") => frame[p].pushed = frame[p].ticks
        /\ (pc[p] # "select" /\ Streaming(p)) => StreamOf(p).pushed + 1 = StreamOf(p).ticks

\* what is pushed is the whole result: every name of it once; and no stream
\* is ended by a panic
FullSnapshot ==
    Pushed =>
        /\ "panic" \notin DOMAIN ret
        /\ Len(SnapshotNames) = Cardinality(SnapshotOf)
        /\ Range(SnapshotNames) = SnapshotOf

\* a step of one goroutine leaves the position and the frame of the others
StepsApart ==
    \A p, q \in Procs :
        (p # q /\ (pc'[p] # pc[p] \/ frame'[p] # frame[p])) =>
            (pc'[q] = pc[q] /\ frame'[q] = frame[q])

\* a snapshot is pushed only to a subscriber whose loop has not returned
PushesWhileOpen == (ret' # ret /\ Pushed') => Streaming(ret'.to)

\* once the context of its request is done, the loop of p returns
ReturnsWhenDone(p) ==
    (Streaming(p) /\ StreamOf(p).ctx = "done") ~> ~Streaming(p)

(* C38: a stream pushes one full snapshot per tick taken while its loop      *)
(* runs; once the context of the request is done the loop returns, and       *)
(* nothing is pushed to a subscriber whose loop has returned; the streams of *)
(* two subscribers do not affect each other.                                 *)
C38_StreamsPushAndEnd ==
    /\ [](OnePushPerTick /\ FullSnapshot)
    /\ [][StepsApart /\ PushesWhileOpen]_vars
    /\ \A p \in Procs : ReturnsWhenDone(p)

====
